---------------------------- MODULE Spec2Model ----------------------------
(***************************************************************************)
(* A model of the ABU student-assistant front end: the two streaming chat  *)
(* stores (useChatStore, useConversationStore), the chat page that drives  *)
(* them, and the VoiceAssistant recording / playback component.            *)
(*                                                                         *)
(* Text is a sequence of tokens.  A token is one character (a, b, c, n,     *)
(* the double quote q, the backslash, the literal newline LF) or a fixed   *)
(* multi-character substring that the code only ever tests as a whole:     *)
(*     data:     the six characters d a t a : space                        *)
(*     [DONE]    the SSE sentinel                                          *)
(*     {T        an opening brace followed by the key type and a colon     *)
(*     }         the closing brace                                         *)
(*     content   the value content of the key type, with done false        *)
(*     complete  the value complete of the key type, with done true        *)
(*     C         the key content with its colon                            *)
(*     F         the key full_response with its colon                      *)
(*     M         the key formatted_response with its colon                 *)
(*     S1, S2    the key session_id with the value s1 (s2), together with  *)
(*               its message_count and is_new_conversation                 *)
(*     NL        the line feed that separates stream lines                 *)
(***************************************************************************)
EXTENDS Integers, Sequences, FiniteSets, TLC

VARIABLES
    \* ---- the streaming store that is in use (one per behaviour) ----
    isMemoryMode,           \* ChatPage: which store the page drives
    messages,               \* store.messages
    isLoading,              \* store.isLoading
    isStreaming,            \* store.isStreaming
    streamingMessage,       \* store.streamingMessage
    error,                  \* store.error
    currentSessionId,       \* useConversationStore.currentSessionId
    messageCount,           \* useConversationStore.messageCount
    isNewConversation,      \* useConversationStore.isNewConversation
    \* ---- the locals of the one send that is running ----
    pc,                     \* where the async function is suspended
    wire,                   \* the bytes the server sends for this send
    pos,                    \* how many of them reader.read() has delivered
    buffer,                 \* let buffer
    fullResponse,           \* let fullResponse
    hasAddedFinalMessage,   \* let hasAddedFinalMessage
    lastUpdateLength,       \* let lastUpdateLength
    sessionInfo,            \* let sessionInfo
    timerPending,           \* the setTimeout(..., 100) of the done branch
    \* ---- observation of the send (never read by an action) ----
    assistantAdds,          \* calls of addMessage with role assistant
    userAdds,               \* calls of addMessage with role user
    fallbackCalls,          \* non-streamed requests issued
    historyCalls,           \* getConversationHistory requests issued
    fallbackResult,         \* how the fallback request ended
    \* ---- the chat page and the voice assistant, each one record ----
    page,                   \* ChatPage state and what both stores show it
    voice,                  \* VoiceAssistant state, refs and browser objects
    \* ---- the HTTP layer: localStorage, location, requests in flight ----
    api,
    \* ---- useDocumentStore and the handlers of AdminDashboard ----
    doc

storeVars == <<isMemoryMode, messages, isLoading, isStreaming, streamingMessage,
               error, currentSessionId, messageCount, isNewConversation>>
sendVars == <<pc, wire, pos, buffer, fullResponse, hasAddedFinalMessage,
              lastUpdateLength, sessionInfo, timerPending>>
obsVars == <<assistantAdds, userAdds, fallbackCalls, historyCalls, fallbackResult>>

-----------------------------------------------------------------------------
(* Bounds *)

MaxLines == 2

-----------------------------------------------------------------------------
(* Text helpers: String.prototype methods on token sequences *)

Front(s) == SubSeq(s, 1, Len(s) - 1)

Includes(s, t) == \E i \in 1..Len(s) : s[i] = t

StartsWith(s, t) == Len(s) > 0 /\ s[1] = t

EndsWith(s, t) == Len(s) > 0 /\ s[Len(s)] = t

IsWhitespace(c) == c \in {"LF", "CR", "TAB", "SP"}

RECURSIVE TrimStart(_)
TrimStart(s) ==
    IF s = <<>> THEN <<>>
    ELSE IF IsWhitespace(Head(s)) THEN TrimStart(Tail(s)) ELSE s

RECURSIVE TrimEnd(_)
TrimEnd(s) ==
    IF s = <<>> THEN <<>>
    ELSE IF IsWhitespace(s[Len(s)]) THEN TrimEnd(Front(s)) ELSE s

Trim(s) == TrimEnd(TrimStart(s))

\* buffer.split on the line feed: always at least one piece, the last one unterminated.
RECURSIVE SplitNL(_)
SplitNL(s) ==
    IF ~Includes(s, "NL") THEN <<s>>
    ELSE LET i == CHOOSE k \in 1..Len(s) :
                      s[k] = "NL" /\ \A j \in 1..(k - 1) : s[j] # "NL"
         IN <<SubSeq(s, 1, i - 1)>> \o SplitNL(SubSeq(s, i + 1, Len(s)))

-----------------------------------------------------------------------------
(* JSON text of one stream object, and JSON.parse on it *)

TypeTokens == {"content", "complete"}
SidTokens == {"S1", "S2"}
KeyTokens == {"C", "F", "M"}

\* JSON.stringify of a string value: the server's side of the wire.
RECURSIVE JSONEscape(_)
JSONEscape(v) ==
    IF v = <<>> THEN <<>>
    ELSE LET c == Head(v)
         IN (CASE c = "q" -> <<"\\", "q">>
               [] c = "\\" -> <<"\\", "\\">>
               [] c = "LF" -> <<"\\", "n">>
               [] OTHER -> <<c>>) \o JSONEscape(Tail(v))

JSONObject(type, sid, key, val) ==
    <<"{T", type>>
        \o (IF sid = "none" THEN <<>> ELSE <<sid>>)
        \o (IF key = "none" THEN <<>> ELSE <<key, "q">> \o JSONEscape(val) \o <<"q">>)
        \o <<"}">>

ParseFailed == [ok |-> FALSE, type |-> "none", sid |-> "none", key |-> "none", val |-> <<>>]

\* The body of a JSON string from index i on: up to the closing quote,
\* with one level of escapes removed.
RECURSIVE ScanString(_, _, _)
ScanString(s, i, acc) ==
    IF i > Len(s) THEN [ok |-> FALSE, val |-> <<>>, next |-> i]
    ELSE IF s[i] = "q" THEN [ok |-> TRUE, val |-> acc, next |-> i + 1]
    ELSE IF s[i] = "\\" THEN
        IF i + 1 > Len(s) THEN [ok |-> FALSE, val |-> <<>>, next |-> i]
        ELSE IF s[i + 1] = "q" THEN ScanString(s, i + 2, Append(acc, "q"))
        ELSE IF s[i + 1] = "\\" THEN ScanString(s, i + 2, Append(acc, "\\"))
        ELSE IF s[i + 1] = "n" THEN ScanString(s, i + 2, Append(acc, "LF"))
        ELSE [ok |-> FALSE, val |-> <<>>, next |-> i]
    ELSE IF s[i] \in {"LF", "NL"} THEN [ok |-> FALSE, val |-> <<>>, next |-> i]
    ELSE ScanString(s, i + 1, Append(acc, s[i]))

\* JSON.parse(text): the object, or ok = FALSE where JSON.parse throws.
JSONParse(s) ==
    IF Len(s) < 3 \/ s[1] # "{T" \/ s[Len(s)] # "}" \/ s[2] \notin TypeTokens
    THEN ParseFailed
    ELSE LET hasSid == s[3] \in SidTokens
             sid == IF hasSid THEN s[3] ELSE "none"
             k == IF hasSid THEN 4 ELSE 3
         IN IF k = Len(s)
            THEN [ok |-> TRUE, type |-> s[2], sid |-> sid, key |-> "none", val |-> <<>>]
            ELSE IF s[k] \in KeyTokens /\ k + 1 < Len(s) /\ s[k + 1] = "q"
            THEN LET r == ScanString(s, k + 2, <<>>)
                 IN IF r.ok /\ r.next = Len(s)
                    THEN [ok |-> TRUE, type |-> s[2], sid |-> sid, key |-> s[k], val |-> r.val]
                    ELSE ParseFailed
            ELSE ParseFailed

-----------------------------------------------------------------------------
(* decodeEscapeSequences: six global replacements, one after the other *)

\* str.replace of the pattern backslash-x, global flag: every leftmost, non-overlapping backslash-x.
RECURSIVE ReplaceEscape(_, _, _)
ReplaceEscape(s, x, y) ==
    IF Len(s) < 2 THEN s
    ELSE IF s[1] = "\\" /\ s[2] = x
         THEN <<y>> \o ReplaceEscape(SubSeq(s, 3, Len(s)), x, y)
         ELSE <<s[1]>> \o ReplaceEscape(Tail(s), x, y)

decodeEscapeSequences(str) ==
    ReplaceEscape(
        ReplaceEscape(
            ReplaceEscape(
                ReplaceEscape(
                    ReplaceEscape(
                        ReplaceEscape(str, "n", "LF"),
                        "r", "CR"),
                    "t", "TAB"),
                "u00e7", "ccedil"),
            "q", "q"),
        "\\", "\\")

-----------------------------------------------------------------------------
(* The regular expression that extracts an embedded full_response field:   *)
(* the key F, optional whitespace, an opening quote, a body of characters  *)
(* other than quote and backslash or of backslash pairs, a closing quote.  *)

RECURSIVE SkipWhitespace(_, _)
SkipWhitespace(s, i) ==
    IF i <= Len(s) /\ IsWhitespace(s[i]) THEN SkipWhitespace(s, i + 1) ELSE i

\* The body of the match from index i: the group and the index after the
\* closing quote.
RECURSIVE RegexBody(_, _, _)
RegexBody(s, i, acc) ==
    IF i > Len(s) THEN [ok |-> FALSE, group |-> <<>>, next |-> i]
    ELSE IF s[i] = "q" THEN [ok |-> TRUE, group |-> acc, next |-> i + 1]
    ELSE IF s[i] = "\\" THEN
        IF i + 1 > Len(s) \/ s[i + 1] = "LF"
        THEN [ok |-> FALSE, group |-> <<>>, next |-> i]
        ELSE RegexBody(s, i + 2, acc \o <<s[i], s[i + 1]>>)
    ELSE RegexBody(s, i + 1, Append(acc, s[i]))

RegexAt(s, i) ==
    IF i > Len(s) \/ s[i] # "F" THEN [ok |-> FALSE, group |-> <<>>, next |-> i]
    ELSE LET j == SkipWhitespace(s, i + 1)
         IN IF j > Len(s) \/ s[j] # "q"
            THEN [ok |-> FALSE, group |-> <<>>, next |-> i]
            ELSE RegexBody(s, j + 1, <<>>)

\* str.match with the global flag: the groups of all non-overlapping matches, in order.
RECURSIVE RegexAllFrom(_, _)
RegexAllFrom(s, i) ==
    IF i > Len(s) THEN <<>>
    ELSE LET m == RegexAt(s, i)
         IN IF m.ok THEN <<m.group>> \o RegexAllFrom(s, m.next)
            ELSE RegexAllFrom(s, i + 1)

RegexAll(s) == RegexAllFrom(s, 1)

-----------------------------------------------------------------------------
(* useChatStore.sendMessageStream: the read loop as a function of its      *)
(* locals.  A loop state is a record                                       *)
(*   [buffer, fullResponse, hasAddedFinalMessage, lastUpdateLength,        *)
(*    isLoading, streamingMessage, brk]                                    *)
(* whose isLoading and streamingMessage are the store's, and whose brk     *)
(* says that the statement  break  of the for loop was reached.            *)

\* The content branch (the same text on the SSE and on the bare-JSON path).
ChatContent(rd, data) ==
    LET parsedContent == JSONParse(data.val)
        actualContent ==
            IF Includes(data.val, "{T")
            THEN IF parsedContent.ok /\ parsedContent.type = "content"
                    /\ parsedContent.key = "C"
                 THEN parsedContent.val
                 ELSE data.val
            ELSE data.val
        full == rd.fullResponse \o actualContent
    IN IF StartsWith(actualContent, "{T") THEN rd
       ELSE [rd EXCEPT
                !.fullResponse = full,
                !.isLoading = IF Len(full) > 0 THEN FALSE ELSE @,
                !.streamingMessage =
                    IF Len(full) # rd.lastUpdateLength
                    THEN decodeEscapeSequences(full) ELSE @,
                !.lastUpdateLength = Len(full)]

\* What a completion takes as the final text of data.full_response.
ExtractFullResponse(full_response) ==
    IF Includes(full_response, "{T")
    THEN IF Includes(full_response, "F")
         THEN \* match without the global flag: the first match
              LET all == RegexAll(full_response)
              IN IF all # <<>> /\ all[1] # <<>>
                 THEN decodeEscapeSequences(all[1])
                 ELSE full_response
         ELSE \* match with the global flag, then its last element
              LET fullResponseMatch == RegexAll(full_response)
              IN IF fullResponseMatch # <<>>
                    /\ fullResponseMatch[Len(fullResponseMatch)] # <<>>
                 THEN decodeEscapeSequences(fullResponseMatch[Len(fullResponseMatch)])
                 ELSE full_response
    ELSE full_response

\* The completion branch; only the SSE path republishes streamingMessage.
ChatComplete(rd, data, sse) ==
    LET withFull ==
            IF data.key = "F" /\ data.val # <<>>
            THEN LET actualResponse == ExtractFullResponse(data.val)
                 IN [rd EXCEPT
                        !.fullResponse = actualResponse,
                        !.streamingMessage =
                            IF sse THEN decodeEscapeSequences(actualResponse) ELSE @]
            ELSE rd
    IN [withFull EXCEPT !.isLoading = FALSE, !.brk = TRUE]

\* A parse failure that leaves the for loop instead of being caught.
ChatDataBreaksOnFailure(rd, data, sse) ==
    IF ~data.ok THEN [rd EXCEPT !.brk = TRUE]
    ELSE IF data.type = "content" /\ data.key = "C" THEN ChatContent(rd, data)
    ELSE IF data.type = "complete" THEN ChatComplete(rd, data, sse)
    ELSE rd

\* The body of the try block of a line: JSON.parse, whose error the catch
\* block logs, then the branch on data.type.
ChatData(rd, data, sse) ==
    IF ~data.ok THEN rd
    ELSE IF data.type = "content" /\ data.key = "C" THEN ChatContent(rd, data)
    ELSE IF data.type = "complete" THEN ChatComplete(rd, data, sse)
    ELSE rd

\* One iteration of  for (const line of lines).
ChatLine(rd, line) ==
    LET trimmedLine == Trim(line)
    IN IF trimmedLine = <<>> THEN rd
       ELSE IF StartsWith(trimmedLine, "data:")
       THEN LET jsonData == Tail(trimmedLine)
            IN IF jsonData = <<"[DONE]">> THEN rd
               ELSE ChatData(rd, JSONParse(jsonData), TRUE)
       ELSE IF StartsWith(trimmedLine, "{T") /\ EndsWith(trimmedLine, "}")
       THEN ChatData(rd, JSONParse(trimmedLine), FALSE)
       ELSE rd

\* The for loop: break leaves it, and the lines after it are not visited.
RECURSIVE ChatLines(_, _)
ChatLines(rd, lines) ==
    IF lines = <<>> THEN rd
    ELSE LET r == ChatLine(rd, Head(lines))
         IN IF r.brk THEN [r EXCEPT !.brk = FALSE]
            ELSE ChatLines(r, Tail(lines))

\* One iteration of the while loop with a chunk read.
ChatChunk(rd, chunk) ==
    LET lines == SplitNL(rd.buffer \o chunk)
    IN ChatLines([rd EXCEPT !.buffer = lines[Len(lines)]], Front(lines))

\* The flush of the done branch: what fullResponse becomes.
ChatFlush(rd) ==
    IF Trim(rd.buffer) = <<>> THEN rd.fullResponse
    ELSE LET data == JSONParse(rd.buffer)
         IN IF data.ok
            THEN IF data.type = "content" /\ data.key = "C" /\ data.val # <<>>
                 THEN rd.fullResponse \o data.val
                 ELSE rd.fullResponse
            ELSE rd.fullResponse \o rd.buffer

\* const finalContent of the done branch.
ChatFinalContent(rd) == decodeEscapeSequences(ChatFlush(rd))

\* A commit that ignores the blank-text guard.
ChatCommitsBlank(rd) == ~rd.hasAddedFinalMessage

\* The condition under which the done branch calls addMessage.
ChatCommits(rd) == Trim(ChatFinalContent(rd)) # <<>> /\ ~rd.hasAddedFinalMessage

ChatLoopStart ==
    [buffer |-> <<>>, fullResponse |-> <<>>, hasAddedFinalMessage |-> FALSE,
     lastUpdateLength |-> 0, isLoading |-> TRUE, streamingMessage |-> <<>>,
     brk |-> FALSE]

-----------------------------------------------------------------------------
(* Messages, and what the server may send *)

Message(role, content, session_id) ==
    [role |-> role, content |-> content, session_id |-> session_id]

\* The text the user sends, the reply of the non-streamed endpoint, and the
\* fixed apology of the catch blocks.
UserText == <<"u">>
FallbackText == <<"r">>
ApologyText == <<"apology">>

\* The session fields that accompany a session_id on the wire.
SessionFields(tok) ==
    [session_id |-> IF tok = "S1" THEN "s1" ELSE "s2",
     message_count |-> IF tok = "S1" THEN 3 ELSE 1,
     is_new_conversation |-> (tok = "S2")]

\* A full_response that holds embedded completion objects, one per value.
RECURSIVE Embedded(_)
Embedded(vals) ==
    IF vals = <<>> THEN <<>>
    ELSE <<"{T", "complete", "F", "q">> \o Head(vals) \o <<"q", "}">>
             \o Embedded(Tail(vals))

Framed(sse, obj) == IF sse THEN <<"data:">> \o obj ELSE obj

\* The lines /api/chat/stream may send, SSE-framed or as bare JSON.
ChatLineKinds(sse) ==
    { Framed(sse, JSONObject("content", "none", "C", <<"a">>)),
      Framed(sse, JSONObject("content", "none", "C", <<"b">>)),
      Framed(sse, JSONObject("complete", "none", "none", <<>>)),
      Framed(sse, JSONObject("complete", "none", "F", <<"c", "\\", "n">>)),
      Framed(sse, JSONObject("complete", "none", "F", Embedded(<<<<"a">>, <<"b">>>>))),
      <<>>,
      Framed(sse, <<"[DONE]">>),
      Framed(sse, <<"{T", "content", "C", "q", "a">>) }

\* The lines /api/chat/memory/stream may send.
MemoryLineKinds ==
    { <<"data:">> \o JSONObject("content", "none", "C", <<"a">>),
      <<"data:">> \o JSONObject("content", "none", "C", <<"b">>),
      <<"data:">> \o JSONObject("complete", "none", "none", <<>>),
      <<"data:">> \o JSONObject("complete", "S1", "none", <<>>),
      <<"data:">> \o JSONObject("complete", "S2", "M", <<"c">>),
      <<"data:", "[DONE]">>,
      <<"data:", "{T", "content", "C", "q", "a">> }

\* The byte stream of a sequence of newline-terminated lines.
RECURSIVE Encode(_)
Encode(lines) ==
    IF lines = <<>> THEN <<>>
    ELSE Head(lines) \o <<"NL">> \o Encode(Tail(lines))

LineSeqs(kinds) == UNION { [1..n -> kinds] : n \in 0..MaxLines }

ChatWires == { Encode(ls) : ls \in LineSeqs(ChatLineKinds(TRUE)) \cup LineSeqs(ChatLineKinds(FALSE)) }

\* The same streams ended before the newline of their last line.
UnterminatedChatWires == { Front(w) : w \in ChatWires \ {<<>>} } \ ChatWires

MemoryWires == { Encode(ls) : ls \in LineSeqs(MemoryLineKinds) }

\* What the history endpoint may return for a session: its exchanges.
Histories(sid) ==
    { <<>>,
      << Message("user", <<"h">>, sid), Message("assistant", <<"k">>, sid) >> }

\* What zustand persist may have stored for the conversation store.
PersistedLogs ==
    { <<>>,
      << Message("user", <<"p">>, "s1"), Message("assistant", <<"k">>, "s1") >> }

-----------------------------------------------------------------------------
(* The state after construction *)

\* ChatPage with nothing sent: normal mode, both stores idle and empty.
PageIdle ==
    [isMemoryMode |-> FALSE,
     normalLoading |-> FALSE, normalStreaming |-> FALSE, normalMessages |-> 0,
     memoryLoading |-> FALSE, memoryStreaming |-> FALSE, memoryMessages |-> 0,
     currentSessionId |-> "none",
     normalReading |-> 0, normalFallbacks |-> 0, normalTimers |-> 0,
     memoryReading |-> 0, memoryFallbacks |-> 0, memoryReloads |-> {},
     historyLoads |-> {}, sends |-> 0,
     switchTarget |-> "none", switchRequests |-> 0,
     changedInFlight |-> FALSE]

\* VoiceAssistant after its first render with isOpen false: 0 is a null ref.
\* errorsShown counts the error notices shown to the user: the component
\* imports toast and has no call of it, and it has no error state.
VoiceIdle ==
    [isOpen |-> FALSE,
     isRecording |-> FALSE, isProcessing |-> FALSE, isPlaying |-> FALSE,
     isInitializing |-> FALSE,
     mediaRecorderRef |-> 0, audioContextRef |-> 0, analyserRef |-> 0,
     streamRef |-> 0, audioRef |-> 0, intervalRef |-> 0, animationRef |-> 0,
     abortControllerRef |-> 0,
     nextId |-> 1, gumPending |-> {}, closureIsOpen |-> {},
     recording |-> {}, onstop |-> {}, stopQueued |-> {},
     liveStreams |-> {}, openContexts |-> {}, liveIntervals |-> {},
     requests |-> {}, playPending |-> {}, playRejected |-> {}, playing |-> {},
     errorQueued |-> {}, cleaned |-> {}, errorsShown |-> 0]

InitStores ==
    /\ isMemoryMode \in BOOLEAN
    /\ messages \in (IF isMemoryMode THEN PersistedLogs ELSE {<<>>})
    /\ currentSessionId \in (IF isMemoryMode THEN {"none", "s1"} ELSE {"none"})
    /\ messageCount = Len(messages) \div 2
    /\ isNewConversation = (currentSessionId = "none")
    /\ isLoading = FALSE
    /\ isStreaming = FALSE
    /\ streamingMessage = <<>>
    /\ error = "null"
    /\ pc = "idle"
    /\ wire = <<>>
    /\ pos = 0
    /\ buffer = <<>>
    /\ fullResponse = <<>>
    /\ hasAddedFinalMessage = FALSE
    /\ lastUpdateLength = 0
    /\ sessionInfo = "none"
    /\ timerPending = FALSE
    /\ assistantAdds = 0
    /\ userAdds = 0
    /\ fallbackCalls = 0
    /\ historyCalls = 0
    /\ fallbackResult = "none"

\* The HTTP layer of a visitor who has not logged in: no token and no
\* persisted auth state in localStorage, the application shown, no request
\* in flight.
ApiIdle ==
    [token |-> FALSE, authStorage |-> FALSE, location |-> "app", pending |-> {}]

\* How many calls of startUploadTracking one behaviour may make, and how
\* many progress requests one call may issue after its first.
MaxTracks == 1
MaxPolls == 1

\* One call of startUploadTracking that has not been made: where its
\* trackProgress is, the progress requests its timer has issued, the calls of
\* onComplete, whether a status other than pending and processing was seen,
\* and whether stopUploadTracking was called since.
TrackIdle ==
    [phase |-> "none", polls |-> 0, onComplete |-> 0, terminal |-> FALSE,
     stopped |-> FALSE]

\* useDocumentStore in its initial state with nothing in flight, and
\* AdminDashboard with no handler suspended and no toast shown. The field
\* server is the set of documents the back end holds.
DocIdle ==
    [documents |-> <<>>, uploadSessions |-> "persisted", stats |-> "persisted",
     currentUploadProgress |-> "null", isLoading |-> FALSE, error |-> "null",
     server |-> {},
     tracks |-> [t \in 1..MaxTracks |-> TrackIdle], nextTrack |-> 1,
     deletes |-> {}, clearing |-> FALSE,
     statsPending |-> FALSE, refreshPending |-> FALSE,
     resume |-> "none", toast |-> "none"]

\* One of the two stores is about to be used; page and voice stay idle.
Init ==
    /\ InitStores
    /\ page = PageIdle
    /\ voice = VoiceIdle
    /\ api = ApiIdle
    /\ doc = DocIdle

\* Both stores idle and empty, as seen by the models of the page and of the
\* voice assistant, which keep their own state.
StoresIdle ==
    /\ InitStores
    /\ ~isMemoryMode

-----------------------------------------------------------------------------
(* useChatStore *)

\* addMessage: the log with one message appended.
addMessage(log, role, content, session_id) ==
    Append(log, Message(role, content, session_id))

ChatLoopState ==
    [buffer |-> buffer, fullResponse |-> fullResponse,
     hasAddedFinalMessage |-> hasAddedFinalMessage,
     lastUpdateLength |-> lastUpdateLength, isLoading |-> isLoading,
     streamingMessage |-> streamingMessage, brk |-> FALSE]

\* The response and the locals of the try block go out of scope when control
\* enters the catch block.
LeaveTry ==
    /\ wire' = <<>>
    /\ pos' = 0
    /\ buffer' = <<>>
    /\ fullResponse' = <<>>
    /\ hasAddedFinalMessage' = FALSE
    /\ lastUpdateLength' = 0
    /\ sessionInfo' = "none"

\* The sizes of the next chunk a read may deliver: any non-empty prefix of
\* what the server has still to send.
ChunkSizes == 1..(Len(wire) - pos)

\* sendMessageStream up to its first await; w is what the server will send.
sendMessageStream(w) ==
    /\ pc = "idle"
    /\ ~isMemoryMode
    /\ isLoading' = TRUE
    /\ isStreaming' = TRUE
    /\ error' = "null"
    /\ streamingMessage' = <<>>
    /\ messages' = addMessage(messages, "user", UserText, "none")
    /\ userAdds' = userAdds + 1
    /\ pc' = "open"
    /\ wire' = w
    /\ pos' = 0
    /\ UNCHANGED <<page, voice, api, doc, isMemoryMode, currentSessionId, messageCount, isNewConversation,
                   buffer, fullResponse, hasAddedFinalMessage, lastUpdateLength,
                   sessionInfo, timerPending, assistantAdds, fallbackCalls,
                   historyCalls, fallbackResult>>

\* chatService.sendMessageStream resolved with response.ok.
ChatStreamOpened ==
    /\ pc = "open"
    /\ ~isMemoryMode
    /\ pc' = "reading"
    /\ buffer' = <<>>
    /\ fullResponse' = <<>>
    /\ hasAddedFinalMessage' = FALSE
    /\ lastUpdateLength' = 0
    /\ UNCHANGED <<page, voice, api, doc, storeVars, wire, pos, sessionInfo, timerPending, obsVars>>

\* reader.read() resolved with the next n bytes.
ChatReadChunk(n) ==
    /\ pc = "reading"
    /\ ~isMemoryMode
    /\ pos + n <= Len(wire)
    /\ LET rd == ChatChunk(ChatLoopState, SubSeq(wire, pos + 1, pos + n))
       IN /\ buffer' = rd.buffer
          /\ fullResponse' = rd.fullResponse
          /\ lastUpdateLength' = rd.lastUpdateLength
          /\ isLoading' = rd.isLoading
          /\ streamingMessage' = rd.streamingMessage
    /\ pos' = pos + n
    /\ UNCHANGED <<page, voice, api, doc, isMemoryMode, messages, isStreaming, error, currentSessionId,
                   messageCount, isNewConversation, pc, wire, hasAddedFinalMessage,
                   sessionInfo, timerPending, obsVars>>

\* reader.read() resolved with done: flush, commit, schedule the reset,
\* leave the loop and run the finally block.
ChatReadDone ==
    /\ pc = "reading"
    /\ ~isMemoryMode
    /\ pos = Len(wire)
    /\ LET finalContent == ChatFinalContent(ChatLoopState)
           commits == ChatCommits(ChatLoopState)
       IN /\ fullResponse' = ChatFlush(ChatLoopState)
          /\ streamingMessage' = finalContent
          /\ messages' = IF commits
                         THEN addMessage(messages, "assistant", finalContent, "none")
                         ELSE messages
          /\ hasAddedFinalMessage' = (hasAddedFinalMessage \/ commits)
          /\ assistantAdds' = IF commits THEN assistantAdds + 1 ELSE assistantAdds
    /\ timerPending' = TRUE
    /\ isLoading' = FALSE
    /\ isStreaming' = FALSE
    /\ pc' = "settled"
    /\ UNCHANGED <<page, voice, api, doc, isMemoryMode, error, currentSessionId, messageCount,
                   isNewConversation, wire, pos, buffer, lastUpdateLength,
                   sessionInfo, userAdds, fallbackCalls, historyCalls, fallbackResult>>

\* A timer callback that leaves the streamed text in place.
ChatResetTimerKeepsText ==
    /\ timerPending
    /\ timerPending' = FALSE
    /\ isLoading' = FALSE
    /\ isStreaming' = FALSE
    /\ UNCHANGED <<page, voice, api, doc, isMemoryMode, messages, streamingMessage, error,
                   currentSessionId, messageCount, isNewConversation, pc, wire,
                   pos, buffer, fullResponse, hasAddedFinalMessage,
                   lastUpdateLength, sessionInfo, obsVars>>

\* The callback of setTimeout(..., 100).
ChatResetTimer ==
    /\ timerPending
    /\ timerPending' = FALSE
    /\ isLoading' = FALSE
    /\ isStreaming' = FALSE
    /\ streamingMessage' = <<>>
    /\ UNCHANGED <<page, voice, api, doc, isMemoryMode, messages, error, currentSessionId, messageCount,
                   isNewConversation, pc, wire, pos, buffer, fullResponse,
                   hasAddedFinalMessage, lastUpdateLength, sessionInfo, obsVars>>

\* The fetch rejects, the status is not OK, or reader.read() rejects: the
\* catch block issues the non-streamed request.
ChatStreamFails ==
    /\ pc \in {"open", "reading"}
    /\ ~isMemoryMode
    /\ pc' = "fallback"
    /\ fallbackCalls' = fallbackCalls + 1
    /\ LeaveTry
    /\ UNCHANGED <<page, voice, api, doc, storeVars, timerPending, assistantAdds, userAdds,
                   historyCalls, fallbackResult>>

\* A catch block that leaves the in-flight text in place.
ChatFallbackEndKeepsText(failed) ==
    /\ IF failed THEN error' = "send_failed" ELSE error' = error
    /\ messages' = addMessage(messages, "assistant",
                              IF failed THEN ApologyText ELSE FallbackText, "none")
    /\ isLoading' = FALSE
    /\ isStreaming' = FALSE
    /\ streamingMessage' = streamingMessage

\* The rest of the catch block after the fallback request, and finally.
ChatFallbackEnd(failed) ==
    /\ IF failed THEN error' = "send_failed" ELSE error' = error
    /\ messages' = addMessage(messages, "assistant",
                              IF failed THEN ApologyText ELSE FallbackText, "none")
    /\ isLoading' = FALSE
    /\ isStreaming' = FALSE
    /\ streamingMessage' = <<>>

\* chatService.sendMessage resolved.
ChatFallbackOk ==
    /\ pc = "fallback"
    /\ ~isMemoryMode
    /\ ChatFallbackEnd(FALSE)
    /\ assistantAdds' = assistantAdds + 1
    /\ fallbackResult' = "ok"
    /\ pc' = "settled"
    /\ UNCHANGED <<page, voice, api, doc, isMemoryMode, currentSessionId, messageCount, isNewConversation,
                   wire, pos, buffer, fullResponse, hasAddedFinalMessage,
                   lastUpdateLength, sessionInfo, timerPending, userAdds,
                   fallbackCalls, historyCalls>>

\* chatService.sendMessage rejected.
ChatFallbackFails ==
    /\ pc = "fallback"
    /\ ~isMemoryMode
    /\ ChatFallbackEnd(TRUE)
    /\ assistantAdds' = assistantAdds + 1
    /\ fallbackResult' = "failed"
    /\ pc' = "settled"
    /\ UNCHANGED <<page, voice, api, doc, isMemoryMode, currentSessionId, messageCount, isNewConversation,
                   wire, pos, buffer, fullResponse, hasAddedFinalMessage,
                   lastUpdateLength, sessionInfo, timerPending, userAdds,
                   fallbackCalls, historyCalls>>

ChatNext ==
    \/ \E w \in ChatWires : sendMessageStream(w)
    \/ \E w \in UnterminatedChatWires : sendMessageStream(w)
    \/ ChatStreamOpened
    \/ \E n \in ChunkSizes : ChatReadChunk(n)
    \/ ChatReadDone
    \/ ChatResetTimer
    \/ ChatStreamFails
    \/ ChatFallbackOk
    \/ ChatFallbackFails

-----------------------------------------------------------------------------
(* useConversationStore *)

\* line.replace(x, ''): the line without the first occurrence of token x.
RECURSIVE RemoveFirst(_, _)
RemoveFirst(s, x) ==
    IF s = <<>> THEN <<>>
    ELSE IF Head(s) = x THEN Tail(s)
    ELSE <<Head(s)>> \o RemoveFirst(Tail(s), x)

\* The body of the for loop for one piece of the chunk; md holds the locals
\* fullResponse and sessionInfo and the store fields the loop sets.
MemLine(md, line) ==
    IF ~StartsWith(Trim(line), "data:") THEN md
    ELSE LET jsonData == Trim(RemoveFirst(line, "data:"))
             data == JSONParse(jsonData)
         IN IF jsonData = <<"[DONE]">> THEN md
            ELSE IF ~data.ok THEN md
            ELSE IF data.type = "content"
            THEN LET full == md.fullResponse
                                 \o (IF data.key = "C" THEN data.val ELSE <<"undefined">>)
                 IN [md EXCEPT !.fullResponse = full,
                               !.isLoading = IF Len(full) > 0 THEN FALSE ELSE @,
                               !.streamingMessage = full]
            ELSE [md EXCEPT !.sessionInfo = IF data.sid # "none" THEN data.sid ELSE @,
                            !.fullResponse = IF data.key = "M" /\ data.val # <<>>
                                             THEN data.val ELSE @,
                            !.isLoading = FALSE]

RECURSIVE MemLines(_, _)
MemLines(md, lines) ==
    IF lines = <<>> THEN md
    ELSE MemLines(MemLine(md, Head(lines)), Tail(lines))

\* One chunk: split at newlines, every piece handled at once, nothing kept.
MemChunk(md, chunk) == MemLines(md, SplitNL(chunk))

MemLoopState ==
    [fullResponse |-> fullResponse, sessionInfo |-> sessionInfo,
     isLoading |-> isLoading, streamingMessage |-> streamingMessage]

\* The session_id addMessage stores: the given one, else the current one.
StoredSessionId(given) == IF given # "none" THEN given ELSE currentSessionId

\* sendMessageWithMemoryStream up to its first await.
sendMessageWithMemoryStream(w) ==
    /\ pc = "idle"
    /\ isMemoryMode
    /\ isLoading' = TRUE
    /\ isStreaming' = TRUE
    /\ error' = "null"
    /\ streamingMessage' = <<>>
    /\ messages' = addMessage(messages, "user", UserText, StoredSessionId("none"))
    /\ userAdds' = userAdds + 1
    /\ pc' = "open"
    /\ wire' = w
    /\ pos' = 0
    /\ UNCHANGED <<page, voice, api, doc, isMemoryMode, currentSessionId, messageCount, isNewConversation,
                   buffer, fullResponse, hasAddedFinalMessage, lastUpdateLength,
                   sessionInfo, timerPending, assistantAdds, fallbackCalls,
                   historyCalls, fallbackResult>>

\* chatService.sendMessageWithMemoryStream resolved with response.ok.
MemStreamOpened ==
    /\ pc = "open"
    /\ isMemoryMode
    /\ pc' = "reading"
    /\ fullResponse' = <<>>
    /\ sessionInfo' = "none"
    /\ UNCHANGED <<page, voice, api, doc, storeVars, wire, pos, buffer, hasAddedFinalMessage,
                   lastUpdateLength, timerPending, obsVars>>

\* reader.read() resolved with the next n bytes.
MemReadChunk(n) ==
    /\ pc = "reading"
    /\ isMemoryMode
    /\ pos + n <= Len(wire)
    /\ LET md == MemChunk(MemLoopState, SubSeq(wire, pos + 1, pos + n))
       IN /\ fullResponse' = md.fullResponse
          /\ sessionInfo' = md.sessionInfo
          /\ isLoading' = md.isLoading
          /\ streamingMessage' = md.streamingMessage
    /\ pos' = pos + n
    /\ UNCHANGED <<page, voice, api, doc, isMemoryMode, messages, isStreaming, error, currentSessionId,
                   messageCount, isNewConversation, pc, wire, buffer,
                   hasAddedFinalMessage, lastUpdateLength, timerPending, obsVars>>

\* A reload that waits for a log shorter than two messages.
ReloadsHistoryBelowTwo(sid, prevSessionId, length) ==
    sid # prevSessionId /\ length < 2

\* The test that starts the history reload: the session id changed and the
\* log, the assistant message included, holds at most two messages.
ReloadsHistory(sid, prevSessionId, length) ==
    sid # prevSessionId /\ length <= 2

\* reader.read() resolved with done: commit, adopt the session, and either
\* start the history request or clear the streaming state.
MemReadDone ==
    /\ pc = "reading"
    /\ isMemoryMode
    /\ pos = Len(wire)
    /\ messages' = addMessage(messages, "assistant", fullResponse,
                              StoredSessionId(IF sessionInfo = "none" THEN "none"
                                              ELSE SessionFields(sessionInfo).session_id))
    /\ assistantAdds' = assistantAdds + 1
    /\ IF sessionInfo = "none"
       THEN /\ UNCHANGED <<page, voice, api, doc, currentSessionId, messageCount, isNewConversation,
                           error, historyCalls>>
            /\ isLoading' = FALSE
            /\ isStreaming' = FALSE
            /\ streamingMessage' = <<>>
            /\ pc' = "settled"
       ELSE LET info == SessionFields(sessionInfo)
            IN /\ currentSessionId' = info.session_id
               /\ messageCount' = info.message_count
               /\ isNewConversation' = info.is_new_conversation
               /\ IF ReloadsHistory(info.session_id, currentSessionId, Len(messages'))
                  THEN /\ isLoading' = TRUE
                       /\ error' = "null"
                       /\ historyCalls' = historyCalls + 1
                       /\ pc' = "history"
                       /\ UNCHANGED <<page, voice, api, doc, isStreaming, streamingMessage>>
                  ELSE /\ isLoading' = FALSE
                       /\ isStreaming' = FALSE
                       /\ streamingMessage' = <<>>
                       /\ pc' = "settled"
                       /\ UNCHANGED <<page, voice, api, doc, error, historyCalls>>
    /\ UNCHANGED <<page, voice, api, doc, isMemoryMode, wire, pos, buffer, fullResponse,
                   hasAddedFinalMessage, lastUpdateLength, sessionInfo,
                   timerPending, userAdds, fallbackCalls, fallbackResult>>

\* getConversationHistory resolved with hist; then the streaming state is
\* cleared.
MemHistoryLoaded(hist) ==
    /\ pc = "history"
    /\ messages' = hist
    /\ messageCount' = Len(hist) \div 2
    /\ isNewConversation' = FALSE
    /\ isLoading' = FALSE
    /\ isStreaming' = FALSE
    /\ streamingMessage' = <<>>
    /\ pc' = "settled"
    /\ UNCHANGED <<page, voice, api, doc, isMemoryMode, error, currentSessionId, wire, pos, buffer,
                   fullResponse, hasAddedFinalMessage, lastUpdateLength,
                   sessionInfo, timerPending, obsVars>>

\* getConversationHistory rejected; then the streaming state is cleared.
MemHistoryFails ==
    /\ pc = "history"
    /\ error' = "history_failed"
    /\ isLoading' = FALSE
    /\ isStreaming' = FALSE
    /\ streamingMessage' = <<>>
    /\ pc' = "settled"
    /\ UNCHANGED <<page, voice, api, doc, isMemoryMode, messages, currentSessionId, messageCount,
                   isNewConversation, wire, pos, buffer, fullResponse,
                   hasAddedFinalMessage, lastUpdateLength, sessionInfo,
                   timerPending, obsVars>>

\* The stream cannot be opened or read: the catch block calls
\* sendMessageWithMemory, which runs up to its await.
MemStreamFails ==
    /\ pc \in {"open", "reading"}
    /\ isMemoryMode
    /\ pc' = "fallback"
    /\ fallbackCalls' = fallbackCalls + 1
    /\ isLoading' = TRUE
    /\ error' = "null"
    /\ messages' = addMessage(messages, "user", UserText, StoredSessionId("none"))
    /\ userAdds' = userAdds + 1
    /\ LeaveTry
    /\ UNCHANGED <<page, voice, api, doc, isMemoryMode, isStreaming, streamingMessage, currentSessionId,
                   messageCount, isNewConversation, timerPending, assistantAdds,
                   historyCalls, fallbackResult>>

\* sendMessageWithMemory got its response; then the end of the catch block.
MemFallbackOk(tok) ==
    /\ pc = "fallback"
    /\ isMemoryMode
    /\ LET response == SessionFields(tok)
       IN /\ currentSessionId' = response.session_id
          /\ messageCount' = response.message_count
          /\ isNewConversation' = response.is_new_conversation
          /\ messages' = addMessage(messages, "assistant", FallbackText,
                                    response.session_id)
    /\ assistantAdds' = assistantAdds + 1
    /\ fallbackResult' = "ok"
    /\ isLoading' = FALSE
    /\ isStreaming' = FALSE
    /\ streamingMessage' = <<>>
    /\ pc' = "settled"
    /\ UNCHANGED <<page, voice, api, doc, isMemoryMode, error, wire, pos, buffer, fullResponse,
                   hasAddedFinalMessage, lastUpdateLength, sessionInfo,
                   timerPending, userAdds, fallbackCalls, historyCalls>>

\* sendMessageWithMemory caught a failed request; then the end of the catch
\* block.
MemFallbackFails ==
    /\ pc = "fallback"
    /\ isMemoryMode
    /\ error' = "send_failed"
    /\ messages' = addMessage(messages, "assistant", ApologyText, StoredSessionId("none"))
    /\ assistantAdds' = assistantAdds + 1
    /\ fallbackResult' = "failed"
    /\ isLoading' = FALSE
    /\ isStreaming' = FALSE
    /\ streamingMessage' = <<>>
    /\ pc' = "settled"
    /\ UNCHANGED <<page, voice, api, doc, isMemoryMode, currentSessionId, messageCount, isNewConversation,
                   wire, pos, buffer, fullResponse, hasAddedFinalMessage,
                   lastUpdateLength, sessionInfo, timerPending, userAdds,
                   fallbackCalls, historyCalls>>

MemNext ==
    \/ \E w \in MemoryWires : sendMessageWithMemoryStream(w)
    \/ MemStreamOpened
    \/ \E n \in ChunkSizes : MemReadChunk(n)
    \/ MemReadDone
    \/ \E hist \in Histories(currentSessionId) : MemHistoryLoaded(hist)
    \/ MemHistoryFails
    \/ MemStreamFails
    \/ \E tok \in SidTokens : MemFallbackOk(tok)
    \/ MemFallbackFails

vars == <<storeVars, sendVars, obsVars, page, voice, api, doc>>

Next == ChatNext \/ MemNext

Spec == Init /\ [][Next]_vars

\* The stream is being opened or read.
StreamActive == pc \in {"open", "reading"}

\* The non-streamed fallback request returns.
FallbackReturns ==
    \/ ChatFallbackOk
    \/ ChatFallbackFails
    \/ \E tok \in SidTokens : MemFallbackOk(tok)
    \/ MemFallbackFails

\* The history request of the done branch returns.
HistoryReturns ==
    \/ \E hist \in Histories(currentSessionId) : MemHistoryLoaded(hist)
    \/ MemHistoryFails

\* The stores with a stream that eventually ends or fails (it is not being
\* opened or read for ever), a fallback request that eventually returns, and
\* timers that fire.
SpecLive ==
    /\ Init
    /\ [][Next]_vars
    /\ []<>~StreamActive
    /\ WF_vars(FallbackReturns)
    /\ WF_vars(ChatResetTimer)

-----------------------------------------------------------------------------
(* What the server sent, read off the wire line by line *)

\* The newline-terminated lines of the wire: without the piece after the
\* last newline.
WireLines == IF wire = <<>> THEN <<>> ELSE Front(SplitNL(wire))

\* Every line of the wire is newline-terminated.
Terminated == wire = <<>> \/ wire[Len(wire)] = "NL"

\* The object a line carries, with or without SSE framing.
LineObject(line) ==
    JSONParse(IF StartsWith(line, "data:") THEN Tail(line) ELSE line)

IsDelta(line) ==
    LET data == LineObject(line) IN data.ok /\ data.type = "content" /\ data.key = "C"

IsCompletion(line) ==
    LET data == LineObject(line) IN data.ok /\ data.type = "complete"

\* A completion that carries a non-empty full text.
HasFullText(line) ==
    IsCompletion(line) /\ LineObject(line).key \in {"F", "M"} /\ LineObject(line).val # <<>>

\* A completion whose full text holds embedded full_response fields.
HasEmbeddedFields(line) ==
    HasFullText(line) /\ Includes(LineObject(line).val, "F")

\* The texts of all content lines, concatenated in wire order.
RECURSIVE DeltaTexts(_)
DeltaTexts(lines) ==
    IF lines = <<>> THEN <<>>
    ELSE (IF IsDelta(Head(lines)) THEN LineObject(Head(lines)).val ELSE <<>>)
             \o DeltaTexts(Tail(lines))

\* The send has settled on the streaming path, with no history reload.
StreamSettled == pc = "settled" /\ fallbackCalls = 0 /\ historyCalls = 0

\* The content of the assistant message this send committed, if any.
Committed ==
    IF assistantAdds = 0 THEN <<>> ELSE <<messages[Len(messages)].content>>

\* The final text is blank: the case in which useChatStore commits nothing.
BlankFinalText == Trim(decodeEscapeSequences(fullResponse)) = <<>>

-----------------------------------------------------------------------------
(* Claims on the two streaming stores *)

\* C1 as stated: when the promise of sendMessageStream or of
\* sendMessageWithMemoryStream has settled, exactly one assistant message
\* has been appended, whatever the stream carried.
C1_ExactlyOneAssistantMessage == pc = "settled" => assistantAdds = 1

\* C1, amended: a send never appends more than one assistant message, and
\* when it has settled it has appended exactly one, except that useChatStore
\* appends none when the stream ended normally with a blank final text.
C1_OneAssistantMessageUnlessBlank ==
    /\ assistantAdds <= 1
    /\ pc = "settled" =>
          assistantAdds = (IF ~isMemoryMode /\ fallbackCalls = 0 /\ BlankFinalText
                           THEN 0 ELSE 1)

\* A chat-store send that processed two completion lines has settled with
\* one assistant message.
C1_Witness ==
    /\ pc = "settled"
    /\ ~isMemoryMode
    /\ assistantAdds = 1
    /\ Len(WireLines) = 2
    /\ \A i \in 1..2 : IsCompletion(WireLines[i])

\* C2: in useChatStore, however the same newline-terminated lines are cut
\* into chunks, the committed assistant message is the one committed when
\* all the bytes arrive in one chunk.
C2_ChunkingIndependent ==
    (StreamSettled /\ ~isMemoryMode /\ Terminated) =>
        LET rd == ChatChunk(ChatLoopStart, wire)
        IN Committed = (IF ChatCommits(rd) THEN <<ChatFinalContent(rd)>> ELSE <<>>)

\* C4: in both stores, when the stream of newline-terminated lines held no
\* completion with a full text and no delta after a completion, the committed message is the
\* concatenation of all delta texts in wire order (nothing committed counts
\* as the empty text).
C4_DeltasCommittedInOrder ==
    (/\ StreamSettled
     /\ Terminated
     /\ \A i \in 1..Len(WireLines) :
           /\ ~HasFullText(WireLines[i])
           /\ IsCompletion(WireLines[i]) =>
                 \A j \in (i + 1)..Len(WireLines) : ~IsDelta(WireLines[j]))
    => Committed \in {<<DeltaTexts(WireLines)>>}
                         \cup (IF DeltaTexts(WireLines) = <<>> THEN {<<>>} ELSE {})

\* C4 for useChatStore alone.
C4_ChatOnly == ~isMemoryMode => C4_DeltasCommittedInOrder

\* C5: in useChatStore, when the lines of the stream are newline-terminated,
\* the first completion carries a
\* plain non-empty full_response and no completion carries embedded fields,
\* the committed message is that full text after escape decoding, whatever
\* content lines precede or follow.
C5_ServerFullTextWins ==
    (/\ StreamSettled
     /\ Terminated
     /\ ~isMemoryMode
     /\ \E i \in 1..Len(WireLines) :
           /\ HasFullText(WireLines[i])
           /\ \A j \in 1..(i - 1) : ~IsCompletion(WireLines[j])
     /\ \A i \in 1..Len(WireLines) : ~HasEmbeddedFields(WireLines[i]))
    => Committed = <<decodeEscapeSequences(<<"c", "\\", "n">>)>>

\* C6: in useChatStore, when the only line of the stream is a terminated completion
\* whose full_response holds two embedded full_response fields, the
\* committed message is the value of the last embedded field.
C6_LastEmbeddedFieldWins ==
    (/\ StreamSettled
     /\ Terminated
     /\ ~isMemoryMode
     /\ Len(WireLines) = 1
     /\ HasEmbeddedFields(WireLines[1]))
    => Committed = <<<<"b">>>>

\* C7: in both stores a failed stream makes exactly one fallback request;
\* when the send has settled after it, the last message is the assistant
\* message with the fallback response, or with the apology and error set
\* when the fallback failed too, and streamingMessage is empty and
\* isStreaming and isLoading are false.
C7_FallbackOnce ==
    /\ fallbackCalls <= 1
    /\ pc = "fallback" => fallbackCalls = 1
    /\ (pc = "settled" /\ fallbackCalls = 1) =>
          /\ fallbackResult \in {"ok", "failed"}
          /\ assistantAdds = 1
          /\ messages[Len(messages)].role = "assistant"
          /\ messages[Len(messages)].content =
                 (IF fallbackResult = "ok" THEN FallbackText ELSE ApologyText)
          /\ fallbackResult = "failed" => error = "send_failed"
          /\ streamingMessage = <<>>
          /\ ~isStreaming
          /\ ~isLoading

\* A send whose stream failed and whose fallback failed too has settled.
C7_Witness ==
    pc = "settled" /\ fallbackCalls = 1 /\ fallbackResult = "failed" /\ isMemoryMode

\* C14 as stated: when the stream of sendMessageWithMemoryStream ends with
\* session metadata, the store adopts its three fields, and it starts a
\* history reload exactly when the session_id differs from the previous
\* currentSessionId and the log holds fewer than 2 messages.
C14_ReloadBelowTwo ==
    [][(MemReadDone /\ sessionInfo # "none") =>
          /\ currentSessionId' = SessionFields(sessionInfo).session_id
          /\ messageCount' = SessionFields(sessionInfo).message_count
          /\ isNewConversation' = SessionFields(sessionInfo).is_new_conversation
          /\ (pc' = "history") <=>
                 /\ SessionFields(sessionInfo).session_id # currentSessionId
                 /\ Len(messages') < 2]_vars

\* C14, amended: the store adopts the three fields, and it starts a history
\* reload exactly when the session_id differs from the previous
\* currentSessionId and the log, with the assistant message just appended,
\* holds at most 2 messages; one history request is made for it.
C14_ReloadAtMostTwo ==
    [][(MemReadDone /\ sessionInfo # "none") =>
          /\ currentSessionId' = SessionFields(sessionInfo).session_id
          /\ messageCount' = SessionFields(sessionInfo).message_count
          /\ isNewConversation' = SessionFields(sessionInfo).is_new_conversation
          /\ (pc' = "history") <=>
                 /\ SessionFields(sessionInfo).session_id # currentSessionId
                 /\ Len(messages') <= 2
          /\ historyCalls' = (IF pc' = "history" THEN 1 ELSE 0)]_vars

\* A first exchange ended with the metadata of a new session: the log holds
\* the user message and the assistant message, and the reload has started.
C14_Witness ==
    /\ isMemoryMode
    /\ pc = "history"
    /\ historyCalls = 1
    /\ Len(messages) = 2
    /\ sessionInfo # "none"
    /\ currentSessionId = SessionFields(sessionInfo).session_id

\* C18: in useConversationStore, when all the bytes of the stream have been
\* read, the accumulated text and the session information are those of the
\* whole lines of the stream, however the bytes were cut into chunks: no
\* piece of a line cut by a chunk boundary was parsed on its own or lost.
C18_CutLineCarriedOver ==
    (isMemoryMode /\ pc = "reading" /\ pos = Len(wire)) =>
        LET whole == MemChunk([fullResponse |-> <<>>, sessionInfo |-> "none",
                               isLoading |-> TRUE, streamingMessage |-> <<>>],
                              wire)
        IN /\ fullResponse = whole.fullResponse
           /\ sessionInfo = whole.sessionInfo

\* C19: in useChatStore, a stream whose last line lacks its newline commits
\* the assistant message that the same stream commits with that newline.
\* Streams with a completion among the terminated lines are left out, so
\* that the chunking plays no part.
C19_FlushLikeLine ==
    (/\ StreamSettled
     /\ ~isMemoryMode
     /\ ~Terminated
     /\ \A i \in 1..Len(WireLines) : ~IsCompletion(WireLines[i]))
    => LET rd == ChatChunk(ChatLoopStart, wire \o <<"NL">>)
       IN Committed = (IF ChatCommits(rd) THEN <<ChatFinalContent(rd)>> ELSE <<>>)

\* C19 for a last line that is a bare content object.
C19_FlushOfBareContent ==
    (/\ StreamSettled
     /\ ~isMemoryMode
     /\ ~Terminated
     /\ \A i \in 1..Len(WireLines) : ~IsCompletion(WireLines[i])
     /\ LET last == SplitNL(wire)[Len(SplitNL(wire))]
        IN ~StartsWith(last, "data:") /\ IsDelta(last))
    => LET rd == ChatChunk(ChatLoopStart, wire \o <<"NL">>)
       IN Committed = (IF ChatCommits(rd) THEN <<ChatFinalContent(rd)>> ELSE <<>>)

\* A line whose payload, with or without SSE framing, is not valid JSON.
NotJSON(line) == ~LineObject(Trim(line)).ok

\* The lines without those that are not valid JSON.
WithoutNotJSON(lines) == SelectSeq(lines, LAMBDA line : ~NotJSON(line))

\* C20: in both stores, a read that delivers complete lines that are not valid
\* JSON stays in the read loop and calls no fallback, and it leaves the
\* loop's locals and the published text as the same read leaves them when
\* those lines are taken out: the well-formed lines before and after them
\* are applied.
C20_MalformedLineSkipped ==
    [][/\ (\E n \in ChunkSizes : ChatReadChunk(n)) =>
            LET lines == SplitNL(buffer \o SubSeq(wire, pos + 1, pos'))
                rd == ChatLines([ChatLoopState EXCEPT !.buffer = lines[Len(lines)]],
                                WithoutNotJSON(Front(lines)))
            IN /\ pc' = "reading"
               /\ fallbackCalls' = fallbackCalls
               /\ error' = error
               /\ buffer' = rd.buffer
               /\ fullResponse' = rd.fullResponse
               /\ streamingMessage' = rd.streamingMessage
               /\ isLoading' = rd.isLoading
       /\ (\E n \in ChunkSizes : MemReadChunk(n)) =>
            LET md == MemLines(MemLoopState,
                               WithoutNotJSON(SplitNL(SubSeq(wire, pos + 1, pos'))))
            IN /\ pc' = "reading"
               /\ fallbackCalls' = fallbackCalls
               /\ error' = error
               /\ fullResponse' = md.fullResponse
               /\ sessionInfo' = md.sessionInfo
               /\ streamingMessage' = md.streamingMessage
               /\ isLoading' = md.isLoading]_vars

\* A stream of an SSE line that opens an object and is not valid JSON, then
\* a content line, has settled without fallback, and the committed message
\* is the text of the content line.
C20_Witness ==
    /\ StreamSettled
    /\ Len(WireLines) = 2
    /\ StartsWith(WireLines[1], "data:")
    /\ Includes(WireLines[1], "{T")
    /\ NotJSON(WireLines[1])
    /\ IsDelta(WireLines[2])
    /\ Committed = <<LineObject(WireLines[2]).val>>

\* C23: from the first step of a send on, before any network call and on
\* every path, the send has appended exactly one user message to the log.
C23_OneUserMessage == pc # "idle" => userAdds = 1

\* C23 for the paths on which the stream did not fail.
C23_OneUserMessageWithoutFallback ==
    (pc # "idle" /\ fallbackCalls = 0) => userAdds = 1

\* C23 for useChatStore alone.
C23_ChatOnly == (pc # "idle" /\ ~isMemoryMode) => userAdds = 1

\* The log holds the user message of this send followed by the assistant
\* message with the streamed text.
TurnInLog ==
    \E i \in 1..(Len(messages) - 1) :
        /\ messages[i].role = "user" /\ messages[i].content = UserText
        /\ messages[i + 1].role = "assistant" /\ messages[i + 1].content = fullResponse

\* C26: when a streamed send of useConversationStore has settled without
\* fallback, the log holds the user message and the assistant reply of the
\* turn, whether or not the history was reloaded and whatever the history
\* endpoint answered.
C26_TurnSurvivesReload ==
    (pc = "settled" /\ isMemoryMode /\ fallbackCalls = 0) => TurnInLog

\* C26 for the sends without a reload and for those whose reload failed.
C26_TurnSurvivesFailedReload ==
    (pc = "settled" /\ isMemoryMode /\ fallbackCalls = 0
       /\ (historyCalls = 0 \/ error = "history_failed")) => TurnInLog

\* The send is over and the store is out of the streaming state.
Quiet ==
    /\ pc = "settled"
    /\ ~isLoading
    /\ ~isStreaming
    /\ streamingMessage = <<>>

\* C17 as stated: every send that was started leads to a settled send with
\* isLoading and isStreaming false and streamingMessage empty.
C17_SendTerminates == (pc # "idle") ~> Quiet

\* C17, amended: the same, provided that the history request of the done
\* branch eventually returns too.
C17_SendTerminatesIfHistoryReturns ==
    WF_vars(HistoryReturns) => ((pc # "idle") ~> Quiet)

\* A send of the memory store has settled after its history reload, and the
\* store is out of the streaming state.
C17_Witness == Quiet /\ isMemoryMode /\ historyCalls = 1

-----------------------------------------------------------------------------
(* VoiceAssistant *)

\* How many recordings one behaviour may start.
MaxSessions == 3

nonVoiceVars == <<storeVars, sendVars, obsVars, page, api, doc>>

\* Every recording gets an id when startRecording is called; its microphone
\* stream, audio context, recorder, interval timer, speech request, abort
\* controller and audio element carry that id.

\* abortControllerRef.current.abort() and the null assignment after it. The
\* aborted fetch rejects, and the catch and finally of its processAudio run
\* before any other task: isProcessing becomes false.
AbortRequest(v) ==
    IF v.abortControllerRef = 0 THEN v
    ELSE [v EXCEPT !.requests = @ \ {v.abortControllerRef},
                   !.isProcessing = IF v.abortControllerRef \in v.requests
                                    THEN FALSE ELSE @,
                   !.abortControllerRef = 0]

\* pause(), src = '' and load() on the current audio element, and the null
\* assignment: its sound stops, and a play() still pending on it rejects.
\* The load with an empty src fails, so an error event is queued on the
\* element, whose listeners of processAudio are still attached.
ReleaseAudio(v) ==
    IF v.audioRef = 0 THEN v
    ELSE [v EXCEPT !.playing = @ \ {v.audioRef},
                   !.playRejected = @ \cup ({v.audioRef} \cap v.playPending),
                   !.playPending = @ \ {v.audioRef},
                   !.errorQueued = @ \cup {v.audioRef},
                   !.audioRef = 0]

\* cleanup(): the component after the call. The field cleaned records the
\* requests that were outstanding when it was called.
cleanup(v) ==
    LET v1 == [AbortRequest(v) EXCEPT !.cleaned = @ \cup v.requests]
        v2 == IF v1.mediaRecorderRef = 0 THEN v1
              ELSE [v1 EXCEPT !.onstop = IF v1.mediaRecorderRef \in v1.recording
                                         THEN @ \ {v1.mediaRecorderRef} ELSE @,
                              !.recording = @ \ {v1.mediaRecorderRef},
                              !.mediaRecorderRef = 0]
        v3 == ReleaseAudio(v2)
        v4 == [v3 EXCEPT !.liveIntervals = @ \ {v3.intervalRef}, !.intervalRef = 0,
                         !.animationRef = 0]
        v5 == [v4 EXCEPT !.liveStreams = @ \ {v4.streamRef}, !.streamRef = 0]
        v6 == IF v5.audioContextRef = 0 THEN v5
              ELSE [v5 EXCEPT !.openContexts = @ \ {v5.audioContextRef},
                              !.audioContextRef = 0, !.analyserRef = 0]
    IN [v6 EXCEPT !.isRecording = FALSE, !.isProcessing = FALSE,
                  !.isPlaying = FALSE, !.isInitializing = FALSE]

\* The parent sets isOpen: the destroy function of the previous effect runs
\* cleanup, and the new effect does nothing.
Open ==
    /\ ~voice.isOpen
    /\ voice' = [cleanup(voice) EXCEPT !.isOpen = TRUE]
    /\ UNCHANGED nonVoiceVars

\* handleClose: cleanup, then onClose; the re-render with isOpen false runs
\* the destroy function of the previous effect and the new effect, each of
\* which calls cleanup.
handleClose ==
    /\ voice.isOpen
    /\ voice' = [cleanup(cleanup(cleanup(voice))) EXCEPT !.isOpen = FALSE]
    /\ UNCHANGED nonVoiceVars

\* startRecording up to its await; the button is rendered while no flag is
\* set. The handlers it will install close over this render's isOpen.
startRecording ==
    /\ voice.isOpen
    /\ ~voice.isRecording /\ ~voice.isProcessing
    /\ ~voice.isPlaying /\ ~voice.isInitializing
    /\ voice.nextId <= MaxSessions
    /\ voice' = [voice EXCEPT !.isInitializing = TRUE,
                              !.gumPending = @ \cup {voice.nextId},
                              !.closureIsOpen = IF voice.isOpen
                                                THEN @ \cup {voice.nextId} ELSE @,
                              !.nextId = @ + 1]
    /\ UNCHANGED nonVoiceVars

\* getUserMedia resolved: the rest of the try block of startRecording.
GetUserMediaResolves(id) ==
    /\ id \in voice.gumPending
    /\ voice' = [voice EXCEPT !.gumPending = @ \ {id},
                              !.streamRef = id, !.liveStreams = @ \cup {id},
                              !.audioContextRef = id, !.analyserRef = id,
                              !.openContexts = @ \cup {id},
                              !.mediaRecorderRef = id,
                              !.recording = @ \cup {id}, !.onstop = @ \cup {id},
                              !.isRecording = TRUE, !.isInitializing = FALSE,
                              !.intervalRef = id, !.liveIntervals = @ \cup {id}]
    /\ UNCHANGED nonVoiceVars

\* getUserMedia rejected: the catch block of startRecording.
GetUserMediaRejects(id) ==
    /\ id \in voice.gumPending
    /\ voice' = [voice EXCEPT !.gumPending = @ \ {id}, !.isInitializing = FALSE]
    /\ UNCHANGED nonVoiceVars

\* stopRecording; its button is rendered while isRecording.
stopRecording ==
    /\ voice.isOpen
    /\ voice.isRecording
    /\ voice' =
         IF voice.mediaRecorderRef = 0 THEN voice
         ELSE LET id == voice.mediaRecorderRef
                  v1 == [voice EXCEPT !.stopQueued = IF id \in voice.recording
                                                     THEN @ \cup {id} ELSE @,
                                      !.recording = @ \ {id},
                                      !.isRecording = FALSE]
                  v2 == AbortRequest(v1)
              IN [v2 EXCEPT !.liveIntervals = @ \ {v2.intervalRef},
                            !.intervalRef = 0, !.animationRef = 0]
    /\ UNCHANGED nonVoiceVars

\* The stop event of recorder id is dispatched: the onstop handler, if still
\* attached, and processAudio up to its await.
OnStop(id) ==
    /\ id \in voice.stopQueued
    /\ voice' =
         IF id \in voice.onstop /\ id \in voice.closureIsOpen
         THEN [voice EXCEPT !.stopQueued = @ \ {id},
                            !.isProcessing = TRUE,
                            !.abortControllerRef = id,
                            !.requests = @ \cup {id}]
         ELSE [voice EXCEPT !.stopQueued = @ \ {id}]
    /\ UNCHANGED nonVoiceVars

\* speechToSpeech resolved: processAudio releases the old audio element,
\* creates the new one and calls play().
ResponseArrives(r) ==
    /\ r \in voice.requests
    /\ LET v1 == ReleaseAudio([voice EXCEPT !.requests = @ \ {r}])
       IN voice' = [v1 EXCEPT !.audioRef = r, !.playPending = @ \cup {r}]
    /\ UNCHANGED nonVoiceVars

\* speechToSpeech rejected for another reason than an abort: catch, finally.
RequestFails(r) ==
    /\ r \in voice.requests
    /\ voice' = [voice EXCEPT !.requests = @ \ {r},
                              !.isProcessing = FALSE,
                              !.abortControllerRef = 0]
    /\ UNCHANGED nonVoiceVars

\* Playback of element r starts: onPlay, play() resolves, finally.
PlayStarts(r) ==
    /\ r \in voice.playPending
    /\ voice' = [voice EXCEPT !.playPending = @ \ {r},
                              !.playing = @ \cup {r},
                              !.isPlaying = TRUE,
                              !.isProcessing = FALSE,
                              !.abortControllerRef = 0]
    /\ UNCHANGED nonVoiceVars

\* play() on a released element rejects: catch, finally.
PlayRejects(r) ==
    /\ r \in voice.playRejected
    /\ voice' = [voice EXCEPT !.playRejected = @ \ {r},
                              !.isProcessing = FALSE,
                              !.abortControllerRef = 0]
    /\ UNCHANGED nonVoiceVars

\* Element r plays to its end: onEnded.
AudioEnded(r) ==
    /\ r \in voice.playing
    /\ voice' = [voice EXCEPT !.playing = @ \ {r},
                              !.isPlaying = FALSE,
                              !.animationRef = 0,
                              !.audioRef = 0]
    /\ UNCHANGED nonVoiceVars

\* The error event of the released element r is dispatched: onError of its
\* processAudio, which clears whatever audioRef now refers to.
AudioError(r) ==
    /\ r \in voice.errorQueued
    /\ voice' = [voice EXCEPT !.errorQueued = @ \ {r},
                              !.isPlaying = FALSE,
                              !.audioRef = 0]
    /\ UNCHANGED nonVoiceVars

\* stopPlaying; its button is rendered while isPlaying.
stopPlaying ==
    /\ voice.isOpen
    /\ voice.isPlaying
    /\ voice' = AbortRequest([ReleaseAudio(voice) EXCEPT
                                 !.isPlaying = IF voice.audioRef # 0 THEN FALSE ELSE @,
                                 !.animationRef = IF voice.audioRef # 0 THEN 0 ELSE @])
    /\ UNCHANGED nonVoiceVars

Ids == 1..MaxSessions

NextVoice ==
    \/ Open
    \/ handleClose
    \/ startRecording
    \/ \E id \in Ids : GetUserMediaResolves(id)
    \/ \E id \in Ids : GetUserMediaRejects(id)
    \/ stopRecording
    \/ \E id \in Ids : OnStop(id)
    \/ \E r \in Ids : ResponseArrives(r)
    \/ \E r \in Ids : RequestFails(r)
    \/ \E r \in Ids : PlayStarts(r)
    \/ \E r \in Ids : PlayRejects(r)
    \/ \E r \in Ids : AudioEnded(r)
    \/ \E r \in Ids : AudioError(r)
    \/ stopPlaying

\* The stores idle, nothing sent.
InitVoice ==
    /\ StoresIdle
    /\ page = PageIdle
    /\ voice = VoiceIdle
    /\ api = ApiIdle
    /\ doc = DocIdle

SpecVoice == InitVoice /\ [][NextVoice]_vars

-----------------------------------------------------------------------------
(* Claims on VoiceAssistant *)

\* C8: cleanup called from any reachable state leaves the four flags false
\* and every ref null, a second call changes nothing, and no request that
\* was outstanding at a cleanup plays or is about to play afterwards.
C8_CleanupFinal ==
    LET c == cleanup(voice)
    IN /\ ~c.isRecording /\ ~c.isProcessing /\ ~c.isPlaying /\ ~c.isInitializing
       /\ c.mediaRecorderRef = 0 /\ c.streamRef = 0 /\ c.audioContextRef = 0
       /\ c.analyserRef = 0 /\ c.audioRef = 0 /\ c.intervalRef = 0
       /\ c.animationRef = 0 /\ c.abortControllerRef = 0
       /\ cleanup(c) = c
       /\ (voice.playing \cup voice.playPending) \cap voice.cleaned = {}

\* The part of C8 about the state right after the call.
C8_CleanupResets ==
    LET c == cleanup(voice)
    IN /\ ~c.isRecording /\ ~c.isProcessing /\ ~c.isPlaying /\ ~c.isInitializing
       /\ c.mediaRecorderRef = 0 /\ c.streamRef = 0 /\ c.audioContextRef = 0
       /\ c.analyserRef = 0 /\ c.audioRef = 0 /\ c.intervalRef = 0
       /\ c.animationRef = 0 /\ c.abortControllerRef = 0
       /\ cleanup(c) = c

\* C9: while the assistant is closed no speech request is outstanding and no
\* audio element plays or is about to play.
C9_SilentWhileClosed ==
    ~voice.isOpen =>
        voice.requests = {} /\ voice.playPending = {} /\ voice.playing = {}

\* C10: at most one microphone stream is live, at most one audio context is
\* open and at most one audio element plays.
C10_SingleHandles ==
    /\ Cardinality(voice.liveStreams) <= 1
    /\ Cardinality(voice.openContexts) <= 1
    /\ Cardinality(voice.playing \cup voice.playPending) <= 1

\* C11: a step of stopRecording, of stopPlaying or of handleClose (cleanup)
\* taken while speech requests are outstanding aborts them all: afterwards no
\* request is outstanding, isProcessing is false, the abort-controller
\* reference is null, and the step has started no playback.
C11_AbortsOutstanding ==
    [][((stopRecording \/ stopPlaying \/ handleClose) /\ voice.requests # {}) =>
          /\ voice'.requests = {}
          /\ ~voice'.isProcessing
          /\ voice'.abortControllerRef = 0
          /\ voice'.playPending \subseteq voice.playPending
          /\ voice'.playing \subseteq voice.playing]_vars

\* C11 for the states in which the abort-controller reference holds the one
\* outstanding request.
C11_AbortsCurrent ==
    [][((stopRecording \/ stopPlaying \/ handleClose)
          /\ voice.requests = {voice.abortControllerRef}) =>
          /\ voice'.requests = {}
          /\ ~voice'.isProcessing
          /\ voice'.abortControllerRef = 0
          /\ voice'.playPending \subseteq voice.playPending
          /\ voice'.playing \subseteq voice.playing]_vars

\* C16: when getUserMedia is rejected, isInitializing becomes false and the
\* other flags stay as they are, no recorder, stream, audio context or timer
\* is created, the failure is shown to the user, and no new acquisition is
\* attempted.
C16_AcquisitionFailureSurfaced ==
    [][\A id \in Ids :
          GetUserMediaRejects(id) =>
              /\ ~voice'.isInitializing
              /\ voice'.isRecording = voice.isRecording
              /\ voice'.isProcessing = voice.isProcessing
              /\ voice'.isPlaying = voice.isPlaying
              /\ voice'.mediaRecorderRef = voice.mediaRecorderRef
              /\ voice'.streamRef = voice.streamRef
              /\ voice'.audioContextRef = voice.audioContextRef
              /\ voice'.intervalRef = voice.intervalRef
              /\ voice'.liveStreams = voice.liveStreams
              /\ voice'.openContexts = voice.openContexts
              /\ voice'.liveIntervals = voice.liveIntervals
              /\ voice'.gumPending = voice.gumPending \ {id}
              /\ voice'.errorsShown > voice.errorsShown]_vars

\* C16 without the notice to the user.
C16_AcquisitionFailureIdle ==
    [][\A id \in Ids :
          GetUserMediaRejects(id) =>
              /\ ~voice'.isInitializing
              /\ voice'.isRecording = voice.isRecording
              /\ voice'.isProcessing = voice.isProcessing
              /\ voice'.isPlaying = voice.isPlaying
              /\ voice'.mediaRecorderRef = voice.mediaRecorderRef
              /\ voice'.streamRef = voice.streamRef
              /\ voice'.audioContextRef = voice.audioContextRef
              /\ voice'.intervalRef = voice.intervalRef
              /\ voice'.liveStreams = voice.liveStreams
              /\ voice'.openContexts = voice.openContexts
              /\ voice'.liveIntervals = voice.liveIntervals
              /\ voice'.gumPending = voice.gumPending \ {id}]_vars

\* C21: while the assistant is closed, that is after the cleanup of
\* handleClose and with no startRecording invoked since, no step makes a
\* microphone stream, an audio context, a recorder or an interval timer live,
\* starts a playback, or sets a session flag.
C21_NoResurrection ==
    [][(~voice.isOpen /\ ~voice'.isOpen) =>
          /\ voice'.liveStreams \subseteq voice.liveStreams
          /\ voice'.openContexts \subseteq voice.openContexts
          /\ voice'.recording \subseteq voice.recording
          /\ voice'.liveIntervals \subseteq voice.liveIntervals
          /\ voice'.playing \subseteq voice.playing
          /\ voice'.isRecording => voice.isRecording
          /\ voice'.isProcessing => voice.isProcessing
          /\ voice'.isPlaying => voice.isPlaying
          /\ voice'.isInitializing => voice.isInitializing]_vars

\* C22: at no time do two audio elements exist that play or are about to
\* play.
C22_OnePlaybackHandle == Cardinality(voice.playing \cup voice.playPending) <= 1

\* C22 for processAudio alone: when the response arrives, the element that
\* audioRef refers to is released, and the new element is the one referred to.
C22_ReleasesReferencedHandle ==
    [][\A r \in Ids :
          ResponseArrives(r) =>
              /\ voice.audioRef \notin voice'.playing \cup voice'.playPending
              /\ voice'.audioRef = r
              /\ voice'.playPending = (voice.playPending \ {voice.audioRef}) \cup {r}]_vars

-----------------------------------------------------------------------------
(* ChatPage: which controls can start a send, and what the stores show it.  *)
(* The page record counts messages instead of holding them, and counts the  *)
(* sends of each store by where they are: reading their stream, waiting for *)
(* the fallback response, or waiting for the history reload after commit.   *)
(* The field changedInFlight says that another conversation became current  *)
(* while a send of useConversationStore was reading its stream.             *)

\* How many sends one behaviour may start.
MaxSends == 3

nonPageVars == <<storeVars, sendVars, obsVars, voice, api, doc>>

SessionIds == {"s1", "s2"}

\* How many messages the history endpoint may return for a session.
HistoryLengths == {0, 2}

\* const isLoading = isMemoryMode ? memoryLoading : normalLoading, and so on.
DisplayedLoading(p) == IF p.isMemoryMode THEN p.memoryLoading ELSE p.normalLoading

DisplayedStreaming(p) == IF p.isMemoryMode THEN p.memoryStreaming ELSE p.normalStreaming

DisplayedMessages(p) == IF p.isMemoryMode THEN p.memoryMessages ELSE p.normalMessages

\* loadConversationHistory up to its await.
StartHistoryLoad(p, sid) ==
    [p EXCEPT !.memoryLoading = TRUE, !.historyLoads = @ \cup {sid}]

\* The effect on [isMemoryMode, currentSessionId, memoryMessages.length]:
\* it runs after a render in which one of them changed.
MemoryModeEffect(old, new) ==
    IF /\ \/ old.isMemoryMode # new.isMemoryMode
          \/ old.currentSessionId # new.currentSessionId
          \/ old.memoryMessages # new.memoryMessages
       /\ new.isMemoryMode
       /\ new.currentSessionId # "none"
       /\ new.memoryMessages = 0
    THEN StartHistoryLoad(new, new.currentSessionId)
    ELSE new

\* How far the history requests made for one switch are counted.
MaxHistoryRequests == 3

\* One more history request is made for the session last switched to; the
\* count saturates.
CountHistoryRequest(p) ==
    [p EXCEPT !.switchRequests = IF @ < MaxHistoryRequests THEN @ + 1 ELSE @]

\* The ways ChatPage mounts: the mode from localStorage, the conversation
\* from the persisted store, and the effects of the first render, in their
\* order: initializeStore loads the history of a persisted session that has
\* no messages, and so does the memory-mode effect in memory mode.
InitialPages ==
    { LET p  == [PageIdle EXCEPT !.isMemoryMode = m, !.currentSessionId = sid,
                                 !.memoryMessages = n]
          p1 == IF sid # "none" /\ n = 0
                THEN CountHistoryRequest(
                         StartHistoryLoad([p EXCEPT !.switchTarget = sid], sid))
                ELSE p
      IN IF m /\ sid # "none" /\ n = 0
         THEN CountHistoryRequest(StartHistoryLoad(p1, sid))
         ELSE p1 :
        m \in BOOLEAN, sid \in {"none", "s1"}, n \in HistoryLengths }

\* The start of sendMessageStream or of sendMessageWithMemoryStream, by mode.
StartSend(p) ==
    IF p.isMemoryMode
    THEN [p EXCEPT !.memoryLoading = TRUE, !.memoryStreaming = TRUE,
                   !.memoryMessages = @ + 1, !.memoryReading = @ + 1,
                   !.sends = @ + 1]
    ELSE [p EXCEPT !.normalLoading = TRUE, !.normalStreaming = TRUE,
                   !.normalMessages = @ + 1, !.normalReading = @ + 1,
                   !.sends = @ + 1]

\* The form is submitted: the input and the send button are enabled.
handleSubmit ==
    /\ ~(DisplayedLoading(page) \/ DisplayedStreaming(page))
    /\ page.sends < MaxSends
    /\ page' = MemoryModeEffect(page, StartSend(page))
    /\ UNCHANGED nonPageVars

\* A quick-question button is clicked: the welcome screen is rendered.
handleQuickQuestion ==
    /\ DisplayedMessages(page) = 0
    /\ page.sends < MaxSends
    /\ page' = MemoryModeEffect(page, StartSend(page))
    /\ UNCHANGED nonPageVars

\* One of the two mode buttons is clicked.
setIsMemoryMode(m) ==
    /\ page.isMemoryMode # m
    /\ page' = MemoryModeEffect(page, [page EXCEPT !.isMemoryMode = m])
    /\ UNCHANGED nonPageVars

\* The button Yeni Konusma, rendered in memory mode.
startNewConversation ==
    /\ page.isMemoryMode
    /\ page' = MemoryModeEffect(page, [page EXCEPT !.memoryMessages = 0,
                                                   !.currentSessionId = "none",
                                                   !.changedInFlight =
                                                       page.memoryReading > 0])
    /\ UNCHANGED nonPageVars

\* A session of the history panel other than the current one is clicked.
switchToSession(sid) ==
    /\ page.isMemoryMode
    /\ sid # page.currentSessionId
    /\ page' = StartHistoryLoad([page EXCEPT !.switchTarget = sid,
                                            !.switchRequests = 1], sid)
    /\ UNCHANGED nonPageVars

\* getConversationHistory resolved with n messages for a load started by
\* switchToSession or by the effect.
HistoryLoaded(sid, n) ==
    /\ sid \in page.historyLoads
    /\ LET loaded == [page EXCEPT !.historyLoads = @ \ {sid},
                                  !.memoryMessages = n,
                                  !.currentSessionId = sid,
                                  !.memoryLoading = FALSE,
                                  !.changedInFlight =
                                      @ \/ (page.memoryReading > 0
                                               /\ sid # page.currentSessionId)]
           after  == MemoryModeEffect(page, loaded)
       IN page' = IF sid = page.switchTarget /\ sid \in after.historyLoads
                  THEN CountHistoryRequest(after)
                  ELSE after
    /\ UNCHANGED nonPageVars

\* getConversationHistory rejected.
HistoryFails(sid) ==
    /\ sid \in page.historyLoads
    /\ page' = [page EXCEPT !.historyLoads = @ \ {sid}, !.memoryLoading = FALSE]
    /\ UNCHANGED nonPageVars

\* A chunk with content arrives for a send of useChatStore.
NormalContent ==
    /\ page.normalReading > 0
    /\ page' = [page EXCEPT !.normalLoading = FALSE]
    /\ UNCHANGED nonPageVars

\* A stream of useChatStore ends: commit or not, timer, finally.
NormalStreamEnds(commits) ==
    /\ page.normalReading > 0
    /\ page' = [page EXCEPT !.normalReading = @ - 1,
                            !.normalMessages = IF commits THEN @ + 1 ELSE @,
                            !.normalTimers = @ + 1,
                            !.normalLoading = FALSE,
                            !.normalStreaming = FALSE]
    /\ UNCHANGED nonPageVars

\* A setTimeout callback of useChatStore runs.
NormalTimer ==
    /\ page.normalTimers > 0
    /\ page' = [page EXCEPT !.normalTimers = @ - 1,
                            !.normalLoading = FALSE,
                            !.normalStreaming = FALSE]
    /\ UNCHANGED nonPageVars

\* A stream of useChatStore fails: the fallback request is issued.
NormalStreamFails ==
    /\ page.normalReading > 0
    /\ page' = [page EXCEPT !.normalReading = @ - 1, !.normalFallbacks = @ + 1]
    /\ UNCHANGED nonPageVars

\* A fallback request of useChatStore ends, either way.
NormalFallbackEnds ==
    /\ page.normalFallbacks > 0
    /\ page' = [page EXCEPT !.normalFallbacks = @ - 1,
                            !.normalMessages = @ + 1,
                            !.normalLoading = FALSE,
                            !.normalStreaming = FALSE]
    /\ UNCHANGED nonPageVars

\* A chunk with content or a completion arrives for a send of
\* useConversationStore.
MemoryContent ==
    /\ page.memoryReading > 0
    /\ page' = [page EXCEPT !.memoryLoading = FALSE]
    /\ UNCHANGED nonPageVars

\* A stream of useConversationStore ends, with session information for
\* session sid or with none.
MemoryStreamEnds(sid) ==
    /\ page.memoryReading > 0
    /\ LET committed == [page EXCEPT !.memoryReading = @ - 1,
                                     !.memoryMessages = @ + 1,
                                     !.changedInFlight =
                                         IF page.memoryReading = 1 THEN FALSE ELSE @]
       IN page' = MemoryModeEffect(page,
             IF sid = "none"
             THEN [committed EXCEPT !.memoryLoading = FALSE,
                                    !.memoryStreaming = FALSE]
             ELSE IF sid # page.currentSessionId /\ committed.memoryMessages <= 2
             THEN [committed EXCEPT !.currentSessionId = sid,
                                    !.memoryLoading = TRUE,
                                    !.memoryReloads = @ \cup {sid}]
             ELSE [committed EXCEPT !.currentSessionId = sid,
                                    !.memoryLoading = FALSE,
                                    !.memoryStreaming = FALSE])
    /\ UNCHANGED nonPageVars

\* The history reload of a settled stream resolves with n messages, and the
\* streaming state is cleared.
MemoryReloadEnds(sid, n) ==
    /\ sid \in page.memoryReloads
    /\ page' = MemoryModeEffect(page,
                   [page EXCEPT !.memoryReloads = @ \ {sid},
                                !.memoryMessages = n,
                                !.currentSessionId = sid,
                                !.memoryLoading = FALSE,
                                !.memoryStreaming = FALSE])
    /\ UNCHANGED nonPageVars

\* The history reload of a settled stream is rejected.
MemoryReloadFails(sid) ==
    /\ sid \in page.memoryReloads
    /\ page' = [page EXCEPT !.memoryReloads = @ \ {sid},
                            !.memoryLoading = FALSE,
                            !.memoryStreaming = FALSE]
    /\ UNCHANGED nonPageVars

\* A stream of useConversationStore fails: sendMessageWithMemory starts.
MemoryStreamFails ==
    /\ page.memoryReading > 0
    /\ page' = MemoryModeEffect(page,
                   [page EXCEPT !.memoryReading = @ - 1,
                                !.memoryFallbacks = @ + 1,
                                !.memoryLoading = TRUE,
                                !.memoryMessages = @ + 1,
                                !.changedInFlight =
                                    IF page.memoryReading = 1 THEN FALSE ELSE @])
    /\ UNCHANGED nonPageVars

\* sendMessageWithMemory ends: with the session of its response, or, for
\* none, with the apology.
MemoryFallbackEnds(sid) ==
    /\ page.memoryFallbacks > 0
    /\ page' = MemoryModeEffect(page,
                   [page EXCEPT !.memoryFallbacks = @ - 1,
                                !.memoryMessages = @ + 1,
                                !.currentSessionId = IF sid = "none" THEN @ ELSE sid,
                                !.memoryLoading = FALSE,
                                !.memoryStreaming = FALSE])
    /\ UNCHANGED nonPageVars

NextPage ==
    \/ handleSubmit
    \/ handleQuickQuestion
    \/ \E m \in BOOLEAN : setIsMemoryMode(m)
    \/ startNewConversation
    \/ \E sid \in SessionIds : switchToSession(sid)
    \/ \E sid \in SessionIds, n \in HistoryLengths : HistoryLoaded(sid, n)
    \/ \E sid \in SessionIds : HistoryFails(sid)
    \/ NormalContent
    \/ \E commits \in BOOLEAN : NormalStreamEnds(commits)
    \/ NormalTimer
    \/ NormalStreamFails
    \/ NormalFallbackEnds
    \/ MemoryContent
    \/ \E sid \in SessionIds \cup {"none"} : MemoryStreamEnds(sid)
    \/ \E sid \in SessionIds, n \in HistoryLengths : MemoryReloadEnds(sid, n)
    \/ \E sid \in SessionIds : MemoryReloadFails(sid)
    \/ MemoryStreamFails
    \/ \E sid \in SessionIds \cup {"none"} : MemoryFallbackEnds(sid)

InitPage ==
    /\ StoresIdle
    /\ page \in InitialPages
    /\ voice = VoiceIdle
    /\ api = ApiIdle
    /\ doc = DocIdle

SpecPage == InitPage /\ [][NextPage]_vars

\* C3: on the chat page at most one send is reading its stream at any time,
\* in normal and in memory mode together.
C3_OneSendInFlight == page.normalReading + page.memoryReading <= 1

\* C3 for sends of one store: no store has two sends reading.
C3_OneSendPerStore == page.normalReading <= 1 /\ page.memoryReading <= 1

\* C12: for the session last switched to, by switchToSession or at start-up
\* with a persisted session that has no messages, exactly one history
\* request is made: the store action and the effect of ChatPage never both
\* fetch it, whatever the server answers.
C12_OneHistoryRequest ==
    page.switchTarget # "none" => page.switchRequests = 1

\* C12 for a switch whose history request has not been answered with an
\* empty history: one request.
C12_OneRequestUnlessEmpty ==
    [][\A sid \in SessionIds :
          (HistoryLoaded(sid, 2) \/ HistoryFails(sid)) =>
              page'.switchRequests = page.switchRequests]_vars

\* C24: in useChatStore, the timer callback that a finished send left behind
\* does not touch the flags of a later send that is reading its stream:
\* isStreaming and isLoading stay as that send has them.
C24_TimerSparesLaterSend ==
    [][(NormalTimer /\ page.normalReading > 0) =>
          /\ page'.normalStreaming = page.normalStreaming
          /\ page'.normalLoading = page.normalLoading]_vars

\* C25: when another conversation became current while a stream of
\* useConversationStore was being read, the end of that stream appends no
\* message to the log now shown and leaves currentSessionId as it is.
C25_ReplyStaysInItsConversation ==
    [][\A sid \in SessionIds \cup {"none"} :
          (MemoryStreamEnds(sid) /\ page.changedInFlight) =>
              /\ page'.memoryMessages = page.memoryMessages
              /\ page'.currentSessionId = page.currentSessionId]_vars

-----------------------------------------------------------------------------
(* The HTTP layer: the axios instance with its interceptors, and the        *)
(* services that call fetch directly.                                       *)

nonApiVars == <<storeVars, sendVars, obsVars, page, voice, doc>>

\* The services of the chat, conversation and speech features.
Services ==
    {"sendMessage", "sendMessageStream", "sendMessageWithMemory",
     "sendMessageWithMemoryStream", "getConversationHistory",
     "getMyConversations", "deleteSession", "deleteAllMySessions",
     "speechToSpeech", "textToSpeech"}

\* The services that go through the axios instance api; the others call
\* fetch.
UsesAxios(svc) == svc \in {"sendMessage", "sendMessageWithMemory"}

\* The response statuses told apart: success, unauthorized, another failure.
Statuses == {200, 401, 500}

\* useAuthStore.login succeeds on the login surface: the token is stored,
\* the user is persisted, and the application is shown.
login ==
    /\ api.location = "admin"
    /\ api' = [api EXCEPT !.token = TRUE, !.authStorage = TRUE,
                          !.location = "app"]
    /\ UNCHANGED nonApiVars

\* A service is called.
Request(svc) ==
    /\ api.location = "app"
    /\ svc \notin api.pending
    /\ api' = [api EXCEPT !.pending = @ \cup {svc}]
    /\ UNCHANGED nonApiVars

\* The response to a request arrives. The response interceptor of the axios
\* instance handles a 401: both localStorage items removed, and the
\* assignment to window.location.href loads the login surface, which ends
\* every other request. A service that calls fetch only tests response.ok.
Response(svc, status) ==
    /\ svc \in api.pending
    /\ api' = IF status = 401 /\ UsesAxios(svc)
              THEN [api EXCEPT !.token = FALSE, !.authStorage = FALSE,
                               !.location = "admin", !.pending = {}]
              ELSE [api EXCEPT !.pending = @ \ {svc}]
    /\ UNCHANGED nonApiVars

NextApi ==
    \/ login
    \/ \E svc \in Services : Request(svc)
    \/ \E svc \in Services, status \in Statuses : Response(svc, status)

InitApi ==
    /\ StoresIdle
    /\ page = PageIdle
    /\ voice = VoiceIdle
    /\ api = ApiIdle
    /\ doc = DocIdle

SpecApi == InitApi /\ [][NextApi]_vars

\* C13: a 401 response to any request, through the axios instance or
\* through fetch, removes the stored token and the persisted auth state and
\* shows the login surface.
C13_UnauthorizedInvalidates ==
    [][\A svc \in Services :
          Response(svc, 401) =>
              ~api'.token /\ ~api'.authStorage /\ api'.location = "admin"]_vars

\* C13 for the requests made through the axios instance.
C13_AxiosInvalidates ==
    [][\A svc \in Services :
          (UsesAxios(svc) /\ Response(svc, 401)) =>
              ~api'.token /\ ~api'.authStorage /\ api'.location = "admin"]_vars

-----------------------------------------------------------------------------
(* decodeEscapeSequences as a function of its input: the input is held in   *)
(* wire and the result in fullResponse.                                     *)

\* The longest input text, in tokens.
MaxEscapeLen == 3

\* The tokens of the inputs: plain characters, among them the letters that
\* name an escape, the four hex digits of a code unit after the letter u as
\* one token, the quote and the backslash.
EscapeTokens == {"a", "n", "t", "u00e7", "q", "\\"}

RECURSIVE TextsUpTo(_, _)
TextsUpTo(tokens, n) ==
    IF n = 0 THEN {<<>>}
    ELSE LET shorter == TextsUpTo(tokens, n - 1)
         IN shorter \cup { Append(t, c) : t \in shorter, c \in tokens }

EscapeInputs == TextsUpTo(EscapeTokens, MaxEscapeLen)

\* The character an escape letter stands for.
EscapedChar(x) ==
    CASE x = "n" -> "LF"
      [] x = "r" -> "CR"
      [] x = "t" -> "TAB"
      [] x = "u00e7" -> "ccedil"
      [] OTHER -> x

\* The text is built from plain characters and escape sequences: every
\* backslash, read from the left, starts one of the six sequences.
RECURSIVE WellEscaped(_)
WellEscaped(s) ==
    IF s = <<>> THEN TRUE
    ELSE IF s[1] = "\\"
         THEN /\ Len(s) >= 2
              /\ s[2] \in {"n", "r", "t", "u00e7", "q", "\\"}
              /\ WellEscaped(SubSeq(s, 3, Len(s)))
         ELSE WellEscaped(Tail(s))

\* Left-to-right unescaping: each escape sequence, read from the left, is
\* replaced by its character.
RECURSIVE Unescape(_)
Unescape(s) ==
    IF s = <<>> THEN <<>>
    ELSE IF s[1] = "\\" /\ Len(s) >= 2
         THEN <<EscapedChar(s[2])>> \o Unescape(SubSeq(s, 3, Len(s)))
         ELSE <<s[1]>> \o Unescape(Tail(s))

\* The text to decode has been chosen.
InitDecode ==
    /\ isMemoryMode = FALSE
    /\ messages = <<>>
    /\ currentSessionId = "none"
    /\ messageCount = 0
    /\ isNewConversation = TRUE
    /\ isLoading = FALSE
    /\ isStreaming = FALSE
    /\ streamingMessage = <<>>
    /\ error = "null"
    /\ pc = "idle"
    /\ wire \in EscapeInputs
    /\ pos = 0
    /\ buffer = <<>>
    /\ fullResponse = <<>>
    /\ hasAddedFinalMessage = FALSE
    /\ lastUpdateLength = 0
    /\ sessionInfo = "none"
    /\ timerPending = FALSE
    /\ assistantAdds = 0
    /\ userAdds = 0
    /\ fallbackCalls = 0
    /\ historyCalls = 0
    /\ fallbackResult = "none"
    /\ page = PageIdle
    /\ voice = VoiceIdle
    /\ api = ApiIdle
    /\ doc = DocIdle

\* const finalContent = decodeEscapeSequences(fullResponse), on the text.
Decode ==
    /\ pc = "idle"
    /\ pc' = "decoded"
    /\ fullResponse' = decodeEscapeSequences(wire)
    /\ UNCHANGED <<page, voice, api, doc, storeVars, wire, pos, buffer,
                   hasAddedFinalMessage, lastUpdateLength, sessionInfo,
                   timerPending, obsVars>>

NextDecode == Decode

SpecDecode == InitDecode /\ [][NextDecode]_vars

\* C15: on every text built from plain characters and escape sequences,
\* decodeEscapeSequences returns what left-to-right unescaping returns.
C15_DecodesLeftToRight ==
    (pc = "decoded" /\ WellEscaped(wire)) => fullResponse = Unescape(wire)

\* C15 for the texts in which no escaped backslash is directly followed by
\* the letter of an escape or by a quote.
C15_DecodesWithoutEscapedBackslash ==
    (/\ pc = "decoded"
     /\ WellEscaped(wire)
     /\ \A i \in 1..(Len(wire) - 1) : ~(wire[i] = "\\" /\ wire[i + 1] = "\\"))
    => fullResponse = Unescape(wire)

-----------------------------------------------------------------------------
(* useDocumentStore, and the handlers of AdminDashboard that call it. One   *)
(* action is one run of the event loop up to the next await; a handler that *)
(* awaits a store function resumes in the microtask after the store         *)
(* function settled, before any other event is handled.                     *)

nonDocVars == <<storeVars, sendVars, obsVars, page, voice, api>>

DocIds == {"d1", "d2"}

\* The order in which GET /api/documents lists the documents.
DocOrder == <<"d1", "d2">>

\* The response of documentService.getDocuments for the documents held.
ServerList(held) == SelectSeq(DocOrder, LAMBDA d : d \in held)

\* UploadProgress.status.
ProgressStatuses == {"pending", "processing", "completed", "error"}

\* progress.status === 'processing' || progress.status === 'pending'
KeepsTracking(status) == status \in {"processing", "pending"}

\* No handler is waiting to resume in a microtask.
NoMicrotask == doc.resume = "none"

TrackIds == 1..MaxTracks

\* startUploadTracking(sessionId, onComplete): trackProgress runs up to its
\* await of getUploadProgress.
startUploadTracking ==
    /\ NoMicrotask
    /\ doc.nextTrack <= MaxTracks
    /\ doc' = [doc EXCEPT
                  !.tracks = [t \in TrackIds |->
                                 IF t = doc.nextTrack
                                 THEN [TrackIdle EXCEPT !.phase = "request"]
                                 ELSE [doc.tracks[t] EXCEPT !.stopped = FALSE]],
                  !.nextTrack = @ + 1]
    /\ UNCHANGED nonDocVars

\* getUploadProgress resolved with status: the progress is published; then
\* the timer is set, or the three fetches are started, of which
\* fetchDocuments sets isLoading and clears error before its request.
ProgressArrives(t, status) ==
    /\ NoMicrotask
    /\ doc.tracks[t].phase = "request"
    /\ doc' = IF KeepsTracking(status)
              THEN [doc EXCEPT !.currentUploadProgress = status,
                               !.tracks[t].phase = "timer"]
              ELSE [doc EXCEPT !.currentUploadProgress = status,
                               !.tracks[t].phase = "refetch",
                               !.tracks[t].terminal = TRUE,
                               !.isLoading = TRUE,
                               !.error = "null"]
    /\ UNCHANGED nonDocVars

\* A catch block that calls onComplete after the request error.
ProgressFailsThenCompletes(t) ==
    /\ NoMicrotask
    /\ doc.tracks[t].phase = "request"
    /\ doc' = [doc EXCEPT !.error = "message",
                          !.currentUploadProgress = "null",
                          !.tracks[t].phase = "failed",
                          !.tracks[t].onComplete = @ + 1]
    /\ UNCHANGED nonDocVars

\* getUploadProgress rejected: the catch block of trackProgress.
ProgressFails(t) ==
    /\ NoMicrotask
    /\ doc.tracks[t].phase = "request"
    /\ doc' = [doc EXCEPT !.error = "message",
                          !.currentUploadProgress = "null",
                          !.tracks[t].phase = "failed"]
    /\ UNCHANGED nonDocVars

\* The callback of setTimeout(trackProgress, 1000): the next request.
TimerFires(t) ==
    /\ NoMicrotask
    /\ doc.tracks[t].phase = "timer"
    /\ doc.tracks[t].polls < MaxPolls
    /\ doc' = [doc EXCEPT !.tracks[t].phase = "request",
                          !.tracks[t].polls = @ + 1]
    /\ UNCHANGED nonDocVars

\* Promise.all of fetchDocuments, fetchUploadSessions and fetchDocumentStats
\* settled, every fetch having caught its own error: with ok their results
\* are stored, else error is set; then the progress is cleared and
\* onComplete is called.
RefetchDone(t, ok) ==
    /\ NoMicrotask
    /\ doc.tracks[t].phase = "refetch"
    /\ LET fetched == IF ok
                      THEN [doc EXCEPT !.documents = ServerList(doc.server),
                                       !.uploadSessions = "fetched",
                                       !.stats = "fetched",
                                       !.isLoading = FALSE]
                      ELSE [doc EXCEPT !.error = "message", !.isLoading = FALSE]
       IN doc' = [fetched EXCEPT !.currentUploadProgress = "null",
                                 !.tracks[t].phase = "ended",
                                 !.tracks[t].onComplete = @ + 1]
    /\ UNCHANGED nonDocVars

\* stopUploadTracking, called by the close button of the progress panel,
\* which is rendered while currentUploadProgress is not null.
stopUploadTracking ==
    /\ NoMicrotask
    /\ doc.currentUploadProgress # "null"
    /\ doc' = [doc EXCEPT
                  !.currentUploadProgress = "null",
                  !.tracks = [t \in TrackIds |->
                                 IF doc.tracks[t].phase \in {"request", "timer", "refetch"}
                                 THEN [doc.tracks[t] EXCEPT !.stopped = TRUE]
                                 ELSE doc.tracks[t]]]
    /\ UNCHANGED nonDocVars

\* handleDeleteDocument, confirmed: deleteDocument up to its await.
handleDeleteDocument(id) ==
    /\ NoMicrotask
    /\ \E i \in 1..Len(doc.documents) : doc.documents[i] = id
    /\ id \notin doc.deletes
    /\ doc' = [doc EXCEPT !.isLoading = TRUE, !.error = "null",
                          !.deletes = @ \cup {id}]
    /\ UNCHANGED nonDocVars

\* DELETE /api/documents/id succeeded: the rest of the try block, which
\* starts fetchDocumentStats without awaiting it.
DeleteOk(id) ==
    /\ NoMicrotask
    /\ id \in doc.deletes
    /\ doc' = [doc EXCEPT !.deletes = @ \ {id},
                          !.server = @ \ {id},
                          !.documents = SelectSeq(@, LAMBDA d : d # id),
                          !.isLoading = FALSE,
                          !.statsPending = TRUE,
                          !.resume = "deleteOk"]
    /\ UNCHANGED nonDocVars

\* A catch block that removes the document although the request failed.
DeleteFailsRemoves(id) ==
    /\ NoMicrotask
    /\ id \in doc.deletes
    /\ doc' = [doc EXCEPT !.deletes = @ \ {id},
                          !.documents = SelectSeq(@, LAMBDA d : d # id),
                          !.error = "message",
                          !.isLoading = FALSE,
                          !.resume = "deleteFailed"]
    /\ UNCHANGED nonDocVars

\* DELETE /api/documents/id failed: the catch block of deleteDocument, whose
\* promise resolves.
DeleteFails(id) ==
    /\ NoMicrotask
    /\ id \in doc.deletes
    /\ doc' = [doc EXCEPT !.deletes = @ \ {id},
                          !.error = "message",
                          !.isLoading = FALSE,
                          !.resume = "deleteFailed"]
    /\ UNCHANGED nonDocVars

\* handleClearAllDocuments, confirmed: clearAllDocuments up to its await.
handleClearAllDocuments ==
    /\ NoMicrotask
    /\ ~doc.clearing
    /\ doc' = [doc EXCEPT !.isLoading = TRUE, !.error = "null", !.clearing = TRUE]
    /\ UNCHANGED nonDocVars

\* DELETE /api/documents succeeded.
ClearOk ==
    /\ NoMicrotask
    /\ doc.clearing
    /\ doc' = [doc EXCEPT !.clearing = FALSE,
                          !.server = {},
                          !.documents = <<>>,
                          !.isLoading = FALSE,
                          !.statsPending = TRUE,
                          !.resume = "clearOk"]
    /\ UNCHANGED nonDocVars

\* DELETE /api/documents failed: the catch block of clearAllDocuments.
ClearFails ==
    /\ NoMicrotask
    /\ doc.clearing
    /\ doc' = [doc EXCEPT !.clearing = FALSE,
                          !.error = "message",
                          !.isLoading = FALSE,
                          !.resume = "clearFailed"]
    /\ UNCHANGED nonDocVars

\* The handler resumes after its await of the store function, which has
\* resolved: toast.success, then refreshAllData up to its await, whose
\* fetchDocuments sets isLoading and clears error.
HandlerResumes ==
    /\ doc.resume # "none"
    /\ doc' = [doc EXCEPT !.resume = "none",
                          !.toast = "success",
                          !.isLoading = TRUE,
                          !.error = "null",
                          !.refreshPending = TRUE]
    /\ UNCHANGED nonDocVars

\* The fetches of refreshAllData settled.
RefreshDone(ok) ==
    /\ NoMicrotask
    /\ doc.refreshPending
    /\ doc' = IF ok
              THEN [doc EXCEPT !.refreshPending = FALSE,
                               !.documents = ServerList(doc.server),
                               !.uploadSessions = "fetched",
                               !.stats = "fetched",
                               !.isLoading = FALSE]
              ELSE [doc EXCEPT !.refreshPending = FALSE,
                               !.error = "message",
                               !.isLoading = FALSE]
    /\ UNCHANGED nonDocVars

\* The fetchDocumentStats that a successful delete started settled.
StatsFetched(ok) ==
    /\ NoMicrotask
    /\ doc.statsPending
    /\ doc' = IF ok
              THEN [doc EXCEPT !.statsPending = FALSE, !.stats = "fetched"]
              ELSE [doc EXCEPT !.statsPending = FALSE, !.error = "message"]
    /\ UNCHANGED nonDocVars

NextDoc ==
    \/ startUploadTracking
    \/ \E t \in TrackIds, status \in ProgressStatuses : ProgressArrives(t, status)
    \/ \E t \in TrackIds : ProgressFails(t)
    \/ \E t \in TrackIds : TimerFires(t)
    \/ \E t \in TrackIds, ok \in BOOLEAN : RefetchDone(t, ok)
    \/ stopUploadTracking
    \/ \E id \in DocIds : handleDeleteDocument(id)
    \/ \E id \in DocIds : DeleteOk(id)
    \/ \E id \in DocIds : DeleteFails(id)
    \/ handleClearAllDocuments
    \/ ClearOk
    \/ ClearFails
    \/ HandlerResumes
    \/ \E ok \in BOOLEAN : RefreshDone(ok)
    \/ \E ok \in BOOLEAN : StatsFetched(ok)

\* The dashboard mounted with the persisted documents of the back end.
InitDoc ==
    /\ StoresIdle
    /\ page = PageIdle
    /\ voice = VoiceIdle
    /\ api = ApiIdle
    /\ doc \in { [DocIdle EXCEPT !.server = held, !.documents = ServerList(held)] :
                   held \in SUBSET DocIds }

SpecDoc == InitDoc /\ [][NextDoc]_vars

-----------------------------------------------------------------------------
(* Claims on useDocumentStore and AdminDashboard *)

\* What holds of every call of startUploadTracking in store d.
TrackingSound(d) ==
    \A t \in TrackIds :
        LET k == d.tracks[t]
        IN /\ k.onComplete <= 1
           /\ k.onComplete = 1 => (k.terminal /\ k.phase = "ended")
           /\ k.terminal => k.phase \in {"refetch", "ended"}
           /\ k.phase = "failed" => k.onComplete = 0

\* C27: for each call of startUploadTracking, a progress request follows a
\* pending or processing status and nothing else, and the status decides
\* whether the timer is set; once another status or a request error was seen
\* no request follows; onComplete is called at most once, only by the step
\* that ends the refetch after a terminal status, and never after a request
\* error; and the step that ends the tracking leaves currentUploadProgress
\* null.
C27_TrackingLifecycle ==
    [][/\ TrackingSound(doc')
       /\ \A t \in TrackIds :
             LET k == doc.tracks[t]
                 kn == doc'.tracks[t]
             IN /\ kn.polls > k.polls => k.phase = "timer"
                /\ (kn.phase = "timer" /\ k.phase # "timer") =>
                      (k.phase = "request" /\ KeepsTracking(doc'.currentUploadProgress))
                /\ \A status \in ProgressStatuses :
                      ProgressArrives(t, status) =>
                          kn.phase = (IF KeepsTracking(status) THEN "timer" ELSE "refetch")
                /\ kn.onComplete > k.onComplete => k.phase = "refetch"
                /\ k.phase \in {"ended", "failed"} =>
                      (kn.phase = k.phase /\ kn.polls = k.polls
                         /\ kn.onComplete = k.onComplete)
                /\ (kn.phase # k.phase /\ kn.phase \in {"ended", "failed"}) =>
                      doc'.currentUploadProgress = "null"]_vars

\* A tracking has polled again after its first request, seen a terminal
\* status, refetched and called onComplete once; the progress is cleared.
C27_Witness ==
    \E t \in TrackIds :
        /\ doc.tracks[t].phase = "ended"
        /\ doc.tracks[t].polls >= 1
        /\ doc.tracks[t].onComplete = 1
        /\ doc.currentUploadProgress = "null"

\* C28: after stopUploadTracking and until startUploadTracking is called
\* again, currentUploadProgress stays null and the stopped tracking issues no
\* progress request.
C28_StoppedStaysStopped ==
    [][\A t \in TrackIds :
          (doc.tracks[t].stopped /\ doc'.tracks[t].stopped) =>
              /\ doc'.currentUploadProgress = "null"
              /\ doc'.tracks[t].polls = doc.tracks[t].polls]_vars

\* C29: the step in which the remote call of deleteDocument or of
\* clearAllDocuments fails leaves documents, uploadSessions and stats as they
\* were, sets error to a message and isLoading to false; the step in which
\* deleteDocument succeeds removes the document with the given id from
\* documents and nothing else.
C29_FailureLeavesCache ==
    [][/\ ((\E id \in DocIds : DeleteFails(id)) \/ ClearFails) =>
             /\ doc'.documents = doc.documents
             /\ doc'.uploadSessions = doc.uploadSessions
             /\ doc'.stats = doc.stats
             /\ doc'.error = "message"
             /\ ~doc'.isLoading
       /\ \A id \in DocIds :
             DeleteOk(id) =>
                 doc'.documents = SelectSeq(doc.documents, LAMBDA d : d # id)]_vars

\* The request to delete one of two cached documents has failed, and both
\* are still cached.
C29_Witness ==
    /\ doc.resume = "deleteFailed"
    /\ doc.error = "message"
    /\ ~doc.isLoading
    /\ Len(doc.documents) = 2

\* C30: when the remote call of a delete or of a clear-all has failed, the
\* handler that resumes shows no success toast: it reports the failure.
C30_SuccessOnlyOnSuccess ==
    [][(HandlerResumes /\ doc.resume \in {"deleteFailed", "clearFailed"}) =>
          doc'.toast = "failure"]_vars

\* C30 for the calls that succeeded: the success toast is shown.
C30_SuccessShownOnSuccess ==
    [][(HandlerResumes /\ doc.resume \in {"deleteOk", "clearOk"}) =>
          doc'.toast = "success"]_vars

====
